---- MODULE Spec2Model ----
(***************************************************************************)
(* Verification model of the email intake core of weapply-pm:              *)
(*   - the conversation linker (thread tracker) of contentRefiner.ts,      *)
(*   - the urgency scorer of urgencyDetector.ts,                           *)
(*   - the metadata extractor / routing resolver of emailRouting.ts.       *)
(* Texts are TLA+ strings; the regular expressions of the source are       *)
(* written out as operators over the characters of the text.               *)
(***************************************************************************)
EXTENDS Integers, Sequences, FiniteSets, TLC

VARIABLES
  ticketCache,     \* Map<issueId, TicketRecord>, in insertion order
  messageIdIndex,  \* Map<messageId, issueId>
  now,             \* the wall clock (Date.now()), in hours
  lastCall,        \* the operation that produced this state
  swept,           \* records deleted by the cleanupCache() of the latest recordTicket
  query,           \* arguments of the findRelatedTickets call that just returned
  related,         \* value returned by that call
  email,           \* content and subject (title) of the email being processed
  urgency,         \* UrgencyAnalysis returned by analyzeUrgency
  priority,        \* arguments and result of combinePriority
  metadata,        \* EmailMetadata returned by extractEmailMetadata
  extracted,       \* argument and result of extractDomain
  labels,          \* value returned by getSourceLabels
  route,           \* client label and target project chosen for the issue
  processingCache, \* Map<issueId, timestamp when processing started>
  clock,           \* Date.now() of the webhook process, in milliseconds
  handlers         \* the webhook deliveries: issue and position of each handler

linkerVars == <<ticketCache, messageIdIndex, now, swept, query, related>>

emailVars == <<email, urgency, priority, metadata, extracted, labels, route>>

gateVars == <<processingCache, clock, handlers>>

vars == <<ticketCache, messageIdIndex, now, lastCall, swept, query, related,
          email, urgency, priority, metadata, extracted, labels, route,
          processingCache, clock, handlers>>

(***************************************************************************)
(* Bounds of the model                                                     *)
(***************************************************************************)
MaxCache == 2
MaxDeliveries == 3
MaxRecent == 4
TickStep == 12

(***************************************************************************)
(* Characters and strings (JavaScript String methods)                      *)
(***************************************************************************)
undefined == "<undefined>"

UpperChars == "ABCDEFGHIJKLMNOPQRSTUVWXYZ"
LowerChars == "abcdefghijklmnopqrstuvwxyz"
DigitChars == "0123456789"

CharAt(s, i) == SubSeq(s, i, i)

CharsOf(s) == {CharAt(s, i) : i \in 1..Len(s)}

UpperSet == CharsOf(UpperChars)

LowerSet == CharsOf(LowerChars)

DigitSet == CharsOf(DigitChars)

LowerOf == [c \in UpperSet |->
             CharAt(LowerChars, CHOOSE k \in 1..26 : CharAt(UpperChars, k) = c)]

IsUpper(c) == c \in UpperSet

IsSpace(c) == c \in {" ", "\t", "\n", "\r"}

LowerChar(c) == IF IsUpper(c) THEN LowerOf[c] ELSE c

RECURSIVE toLowerCase(_)
toLowerCase(s) ==
  IF Len(s) = 0 THEN ""
  ELSE IF Len(s) = 1 THEN LowerChar(s)
  ELSE LET h == Len(s) \div 2
       IN toLowerCase(SubSeq(s, 1, h)) \o toLowerCase(SubSeq(s, h + 1, Len(s)))

Min(S) == CHOOSE x \in S : \A y \in S : x <= y

Max(S) == CHOOSE x \in S : \A y \in S : y <= x

\* s.substring(i - 1): the text from position i (1-based) to the end
From(s, i) == SubSeq(s, i, Len(s))

\* the text at position i starts with the literal p
StartsAt(s, i, p) == i + Len(p) - 1 <= Len(s) /\ SubSeq(s, i, i + Len(p) - 1) = p

\* the same, ignoring case (the /i flag)
StartsAtCI(s, i, p) ==
  i + Len(p) - 1 <= Len(s)
  /\ toLowerCase(SubSeq(s, i, i + Len(p) - 1)) = toLowerCase(p)

\* s.includes(k)
includes(s, k) == \E i \in 1..(Len(s) - Len(k) + 1) : StartsAt(s, i, k)

\* first position >= i holding a character outside the set chars
\* (the end of a greedy [chars]* that starts at i)
SkipChars(s, chars, i) ==
  IF i > Len(s) THEN i
  ELSE Min({j \in i..(Len(s) + 1) : j = Len(s) + 1 \/ CharAt(s, j) \notin chars})

\* first position >= i holding a character that is not white space (\s*)
SkipSpace(s, i) == SkipChars(s, {" ", "\t", "\n", "\r"}, i)

\* first position >= i holding character c, or 0
IndexOfChar(s, c, i) ==
  LET hits == {j \in i..Len(s) : CharAt(s, j) = c}
  IN IF hits = {} THEN 0 ELSE Min(hits)

\* s.trim()
RECURSIVE trimEnd(_)
trimEnd(s) ==
  IF Len(s) > 0 /\ IsSpace(CharAt(s, Len(s)))
    THEN trimEnd(SubSeq(s, 1, Len(s) - 1)) ELSE s

trim(s) == trimEnd(From(s, SkipSpace(s, 1)))

\* s.replace(/\s+/g, ' ')
RECURSIVE CollapseSpace(_, _)
CollapseSpace(s, i) ==
  IF i > Len(s) THEN ""
  ELSE IF IsSpace(CharAt(s, i)) THEN " " \o CollapseSpace(s, SkipSpace(s, i))
  ELSE CharAt(s, i) \o CollapseSpace(s, i + 1)

\* s.split('@')[1]?.toLowerCase() || ''
SplitAtDomain(s) ==
  LET a == IndexOfChar(s, "@", 1)
  IN IF a = 0 THEN ""
     ELSE LET b == IndexOfChar(s, "@", a + 1)
          IN toLowerCase(SubSeq(s, a + 1, IF b = 0 THEN Len(s) ELSE b - 1))

(***************************************************************************)
(* Conversation linker: contentRefiner.ts (thread tracker)                 *)
(***************************************************************************)
CACHE_TTL_DAYS == 7
RECENT_HOURS == 24
MAX_SUGGESTIONS == 3

\* /^(Re|Fwd?|FW|Fw|AW|SV|VS|Antw|Rif):\s*/gi
SubjectPrefixes == <<"Re", "Fwd", "Fw", "FW", "Fw", "AW", "SV", "VS", "Antw", "Rif">>

ReplyPrefixes == <<"Re", "AW", "SV", "VS", "Antw", "Rif">>

ForwardPrefixes == <<"Fwd", "Fw", "FW", "Fw">>

\* length of the match of /^(p1|p2|...):/i at the start of s, or 0
PrefixMatchLen(s, prefixes) ==
  LET hits == {k \in 1..Len(prefixes) : StartsAtCI(s, 1, prefixes[k] \o ":")}
  IN IF hits = {} THEN 0
     ELSE Len(prefixes[Min(hits)]) + 1

normalizeSubject(subject) ==
  LET n == PrefixMatchLen(subject, SubjectPrefixes)
      stripped == IF n = 0 THEN subject ELSE From(subject, SkipSpace(subject, n + 1))
  IN toLowerCase(trim(CollapseSpace(stripped, 1)))

isReplySubject(subject) == PrefixMatchLen(subject, ReplyPrefixes) > 0

isForwardSubject(subject) == PrefixMatchLen(subject, ForwardPrefixes) > 0

\* positions where the literal p occurs in s, ignoring case (the /i flag)
OccurrencesCI(s, p) ==
  LET low == toLowerCase(s)
      lp == toLowerCase(p)
  IN {i \in 1..(Len(s) - Len(p) + 1) : StartsAt(low, i, lp)}

\* the match of  label \s* < ([^>]+) >  with the label at position i:
\* the captured group, or undefined
BracketedAfter(s, i, label) ==
  LET lt == SkipSpace(s, i + Len(label))
  IN IF ~StartsAt(s, lt, "<") THEN undefined
     ELSE LET gt == IndexOfChar(s, ">", lt + 1)
          IN IF gt = 0 \/ gt = lt + 1 THEN undefined
             ELSE SubSeq(s, lt + 1, gt - 1)

\* content.match(/label\s*<([^>]+)>/i)?.[1]: the leftmost match
FirstBracketed(s, label) ==
  LET hits == {i \in OccurrencesCI(s, label) : BracketedAfter(s, i, label) # undefined}
  IN IF hits = {} THEN undefined ELSE BracketedAfter(s, Min(hits), label)

extractMessageId(content) == FirstBracketed(content, "Message-ID:")

extractInReplyTo(content) == FirstBracketed(content, "In-Reply-To:")

\* line.match(/<([^>]+)>/g) with the brackets removed from every match
RECURSIVE AllBracketed(_, _)
AllBracketed(s, i) ==
  LET lt == IndexOfChar(s, "<", i)
  IN IF lt = 0 THEN <<>>
     ELSE LET gt == IndexOfChar(s, ">", lt + 1)
          IN IF gt = 0 THEN <<>>
             ELSE IF gt = lt + 1 THEN AllBracketed(s, lt + 1)
             ELSE <<SubSeq(s, lt + 1, gt - 1)>> \o AllBracketed(s, gt + 1)

\* group 1 of /References:\s*([^\n]+)/i with the label at position i, or undefined
ReferencesLineAt(s, i) ==
  LET a == i + Len("References:")
      b == SkipSpace(s, a)
      \* [^\n]+ needs one character: at the end of the text \s* gives
      \* back white space until a character other than a line end is found
      back == {p \in a..(b - 1) : CharAt(s, p) # "\n"}
      start == IF b <= Len(s) THEN b
               ELSE IF back # {} THEN Max(back)
               ELSE 0
  IN IF start = 0 THEN undefined
     ELSE LET nl == IndexOfChar(s, "\n", start)
          IN SubSeq(s, start, IF nl = 0 THEN Len(s) ELSE nl - 1)

extractReferences(content) ==
  LET hits == {i \in OccurrencesCI(content, "References:") :
                 ReferencesLineAt(content, i) # undefined}
  IN IF hits = {} THEN <<>> ELSE AllBracketed(ReferencesLineAt(content, Min(hits)), 1)

\* Map.prototype.has / get / set on the insertion-ordered ticketCache
MapHas(cache, issueId) == \E k \in 1..Len(cache) : cache[k].issueId = issueId

MapGet(cache, issueId) ==
  IF MapHas(cache, issueId)
    THEN cache[CHOOSE k \in 1..Len(cache) : cache[k].issueId = issueId]
    ELSE undefined

MapSet(cache, issueId, record) ==
  IF MapHas(cache, issueId)
    THEN [k \in 1..Len(cache) |->
            IF cache[k].issueId = issueId THEN record ELSE cache[k]]
    ELSE Append(cache, record)

\* JavaScript truthiness of an optional string
Truthy(x) == x # undefined /\ x # ""

IndexGet(index, messageId) ==
  IF messageId \in DOMAIN index THEN index[messageId] ELSE undefined

IndexSet(index, messageId, issueId) ==
  [m \in DOMAIN index \cup {messageId} |->
     IF m = messageId THEN issueId ELSE index[m]]

IndexDelete(index, messageIds) == [m \in DOMAIN index \ messageIds |-> index[m]]

\* records deleted by cleanupCache() at time t
Expired(cache, t) ==
  LET cutoff == t - CACHE_TTL_DAYS * 24
  IN {k \in 1..Len(cache) : cache[k].createdAt < cutoff}

\* cleanupCache that deletes the records but leaves the reverse entries
cleanupCache_keepsIndex(cache, index, t) ==
  [cache |-> SelectSeq(cache, LAMBDA r : r.createdAt >= t - CACHE_TTL_DAYS * 24),
   index |-> index,
   swept |-> {cache[k] : k \in Expired(cache, t)}]

cleanupCache(cache, index, t) ==
  LET expired == Expired(cache, t)
      gone == {cache[k].messageId : k \in {j \in expired : Truthy(cache[j].messageId)}}
  IN [cache |-> SelectSeq(cache, LAMBDA r : r.createdAt >= t - CACHE_TTL_DAYS * 24),
      index |-> IndexDelete(index, gone),
      swept |-> {cache[k] : k \in expired}]

\* no findRelatedTickets call has just returned
NoQuery == [senderEmail |-> undefined, subject |-> undefined, content |-> undefined]

TicketRecord(issueId, issueIdentifier, senderEmail, subject, messageId, t) ==
  [issueId |-> issueId,
   issueIdentifier |-> issueIdentifier,
   senderEmail |-> toLowerCase(senderEmail),
   senderDomain |-> SplitAtDomain(senderEmail),
   subject |-> subject,
   normalizedSubject |-> normalizeSubject(subject),
   messageId |-> messageId,
   createdAt |-> t]

recordTicket(issueId, issueIdentifier, senderEmail, subject, messageId) ==
  LET record == TicketRecord(issueId, issueIdentifier, senderEmail, subject, messageId, now)
      stored == MapSet(ticketCache, issueId, record)
      indexed == IF Truthy(messageId)
                   THEN IndexSet(messageIdIndex, messageId, issueId)
                   ELSE messageIdIndex
      cleaned == cleanupCache(stored, indexed, now)
  IN /\ ticketCache' = cleaned.cache
     /\ messageIdIndex' = cleaned.index
     /\ swept' = cleaned.swept
     /\ lastCall' = "recordTicket"
     /\ UNCHANGED <<now, query, related>>
     /\ UNCHANGED <<emailVars, gateVars>>

RelatedTicket(record, matchType, confidence, reason) ==
  [issueId |-> record.issueId,
   issueIdentifier |-> record.issueIdentifier,
   matchType |-> matchType,
   confidence |-> confidence,
   reason |-> reason]

\* 1. Message-ID references
ThreadRefs(content) ==
  LET inReplyTo == extractInReplyTo(content)
      references == extractReferences(content)
  IN IF Truthy(inReplyTo) THEN <<inReplyTo>> \o references ELSE references

RECURSIVE ThreadMatches(_, _, _)
ThreadMatches(cache, index, refs) ==
  IF refs = <<>> THEN <<>>
  ELSE LET issueId == IndexGet(index, Head(refs))
           record == MapGet(cache, issueId)
           rest == ThreadMatches(cache, index, Tail(refs))
       IN IF Truthy(issueId) /\ MapHas(cache, issueId)
            THEN <<RelatedTicket(record, "thread", "high",
                     "Reply to " \o record.issueIdentifier \o " (same email thread)")>> \o rest
            ELSE rest

\* 2. normalized subject + same sender domain
SubjectMatches(cache, senderEmail, subject) ==
  LET normalizedSubject == normalizeSubject(subject)
      senderDomain == SplitAtDomain(senderEmail)
      hits == SelectSeq(cache, LAMBDA r : r.normalizedSubject = normalizedSubject
                                          /\ r.senderDomain = senderDomain)
  IN [k \in 1..Len(hits) |->
        RelatedTicket(hits[k], "subject", "high", "Same subject from " \o senderDomain)]

\* 3. exact sender + similar subject
SenderMatches(cache, senderEmail, subject) ==
  LET normalizedSubject == normalizeSubject(subject)
      hits == SelectSeq(cache, LAMBDA r :
                /\ r.senderEmail = toLowerCase(senderEmail)
                /\ \/ includes(normalizedSubject, r.normalizedSubject)
                   \/ includes(r.normalizedSubject, normalizedSubject))
  IN [k \in 1..Len(hits) |->
        RelatedTicket(hits[k], "sender", "medium", "Similar subject from same sender")]

\* 4. recent tickets from the same sender
RecentMatches(cache, senderEmail, t) ==
  LET fromSender == SelectSeq(cache, LAMBDA r : r.senderEmail = toLowerCase(senderEmail))
      recent == SelectSeq(fromSender, LAMBDA r : t - r.createdAt < RECENT_HOURS)
      firstFew == SubSeq(recent, 1, IF Len(recent) < MAX_SUGGESTIONS
                                      THEN Len(recent) ELSE MAX_SUGGESTIONS)
  IN [k \in 1..Len(firstFew) |->
        RelatedTicket(firstFew[k], "sender", "low", "Recent ticket from same sender")]

\* findRelatedTickets without the `related.length === 0` guards: tiers are merged
findRelatedTickets_merged(cache, index, t, senderEmail, subject, content) ==
  ThreadMatches(cache, index, ThreadRefs(content))
    \o SubjectMatches(cache, senderEmail, subject)
    \o SenderMatches(cache, senderEmail, subject)
    \o RecentMatches(cache, senderEmail, t)

findRelatedTickets(cache, index, t, senderEmail, subject, content) ==
  LET tier1 == ThreadMatches(cache, index, ThreadRefs(content))
      tier2 == SubjectMatches(cache, senderEmail, subject)
      tier3 == SenderMatches(cache, senderEmail, subject)
      tier4 == RecentMatches(cache, senderEmail, t)
  IN IF tier1 # <<>> THEN tier1
     ELSE IF tier2 # <<>> THEN tier2
     ELSE IF tier3 # <<>> THEN tier3
     ELSE tier4

(***************************************************************************)
(* Urgency scorer: urgencyDetector.ts                                      *)
(***************************************************************************)
\* Object.entries(URGENCY_KEYWORDS), in the order of the source
URGENCY_KEYWORDS == <<
  [keyword |-> "urgent", weight |-> 30],
  [keyword |-> "emergency", weight |-> 30],
  [keyword |-> "critical", weight |-> 30],
  [keyword |-> "asap", weight |-> 30],
  [keyword |-> "immediately", weight |-> 30],
  [keyword |-> "right now", weight |-> 30],
  [keyword |-> "right away", weight |-> 30],
  [keyword |-> "important", weight |-> 20],
  [keyword |-> "priority", weight |-> 20],
  [keyword |-> "deadline", weight |-> 20],
  [keyword |-> "time-sensitive", weight |-> 20],
  [keyword |-> "time sensitive", weight |-> 20],
  [keyword |-> "as soon as possible", weight |-> 20],
  [keyword |-> "blocking", weight |-> 20],
  [keyword |-> "blocked", weight |-> 20],
  [keyword |-> "broken", weight |-> 20],
  [keyword |-> "down", weight |-> 20],
  [keyword |-> "outage", weight |-> 20],
  [keyword |-> "not working", weight |-> 20],
  [keyword |-> "doesn't work", weight |-> 20],
  [keyword |-> "can't access", weight |-> 20],
  [keyword |-> "cannot access", weight |-> 20],
  [keyword |-> "please help", weight |-> 15],
  [keyword |-> "need help", weight |-> 15],
  [keyword |-> "help needed", weight |-> 15],
  [keyword |-> "stuck", weight |-> 15],
  [keyword |-> "failing", weight |-> 15],
  [keyword |-> "failed", weight |-> 15],
  [keyword |-> "error", weight |-> 15],
  [keyword |-> "crash", weight |-> 15],
  [keyword |-> "crashing", weight |-> 15],
  [keyword |-> "soon", weight |-> 10],
  [keyword |-> "quickly", weight |-> 10],
  [keyword |-> "fast", weight |-> 10],
  [keyword |-> "waiting", weight |-> 10],
  [keyword |-> "overdue", weight |-> 10],
  [keyword |-> "late", weight |-> 10],
  [keyword |-> "delayed", weight |-> 10],
  [keyword |-> "when you have time", weight |-> -10],
  [keyword |-> "no rush", weight |-> -10],
  [keyword |-> "not urgent", weight |-> -10],
  [keyword |-> "low priority", weight |-> -10],
  [keyword |-> "whenever", weight |-> -10],
  [keyword |-> "at your convenience", weight |-> -10],
  [keyword |-> "nice to have", weight |-> -10],
  [keyword |-> "future", weight |-> -10]
>>

\* Object.entries(IMPACT_KEYWORDS)
IMPACT_KEYWORDS == <<
  [keyword |-> "customers affected", weight |-> 25],
  [keyword |-> "customer impact", weight |-> 25],
  [keyword |-> "revenue", weight |-> 25],
  [keyword |-> "money", weight |-> 20],
  [keyword |-> "losing", weight |-> 20],
  [keyword |-> "lost", weight |-> 15],
  [keyword |-> "sales", weight |-> 15],
  [keyword |-> "production", weight |-> 20],
  [keyword |-> "live", weight |-> 15],
  [keyword |-> "public", weight |-> 15],
  [keyword |-> "security", weight |-> 25],
  [keyword |-> "breach", weight |-> 30],
  [keyword |-> "hack", weight |-> 30],
  [keyword |-> "vulnerability", weight |-> 25],
  [keyword |-> "exploit", weight |-> 25],
  [keyword |-> "leak", weight |-> 20],
  [keyword |-> "exposed", weight |-> 20],
  [keyword |-> "sla", weight |-> 20],
  [keyword |-> "contract", weight |-> 15],
  [keyword |-> "agreement", weight |-> 10],
  [keyword |-> "deadline", weight |-> 15],
  [keyword |-> "due date", weight |-> 15],
  [keyword |-> "due today", weight |-> 25],
  [keyword |-> "due tomorrow", weight |-> 20],
  [keyword |-> "expires", weight |-> 20]
>>

\* number of matches of /p/g for a literal p that cannot overlap itself
\* (HELP, URGENT, ASAP, CRITICAL, EMERGENCY): the occurrences of p
CountLiteral(s, p) == Cardinality({i \in 1..(Len(s) - Len(p) + 1) : StartsAt(s, i, p)})

\* number of matches of /[chars]{n,}/g: a greedy match takes a whole run, so
\* the matches are the maximal runs of at least n characters
CountRuns(s, chars, n) ==
  Cardinality({i \in 1..(Len(s) - n + 1) :
                 /\ i = 1 \/ CharAt(s, i - 1) \notin chars
                 /\ \A k \in i..(i + n - 1) : CharAt(s, k) \in chars})

\* p occurs in s, ignoring case: /p/i.test(s)
includesCI(s, p) == OccurrencesCI(s, p) # {}

\* /please.*help/i: "help" after "please" with no line terminator in between
PleaseHelp(s) ==
  \E i \in OccurrencesCI(s, "please"), j \in OccurrencesCI(s, "help") :
    /\ i + 6 <= j
    /\ \A k \in (i + 6)..(j - 1) : CharAt(s, k) \notin {"\n", "\r"}

\* /\d+ unit/i: a digit right before " unit"
DigitsBefore(s, unit) ==
  \E i \in OccurrencesCI(s, " " \o unit) : i > 1 /\ CharAt(s, i - 1) \in DigitSet

\* originalText.match(pattern).length of each PANIC_PATTERNS entry (0: no match)
PANIC_PATTERNS(text) == <<
  [matches |-> CountRuns(text, {"!"}, 2), weight |-> 10, name |-> "Multiple exclamation marks"],
  [matches |-> CountLiteral(text, "HELP"), weight |-> 15, name |-> "HELP in caps"],
  [matches |-> CountLiteral(text, "URGENT"), weight |-> 20, name |-> "URGENT in caps"],
  [matches |-> CountLiteral(text, "ASAP"), weight |-> 20, name |-> "ASAP in caps"],
  [matches |-> CountLiteral(text, "CRITICAL"), weight |-> 20, name |-> "CRITICAL in caps"],
  [matches |-> CountLiteral(text, "EMERGENCY"), weight |-> 25, name |-> "EMERGENCY in caps"],
  [matches |-> CountRuns(text, UpperSet, 5), weight |-> 5, name |-> "Extended caps text"],
  [matches |-> IF PleaseHelp(text) THEN 1 ELSE 0, weight |-> 10, name |-> "Please help pattern"],
  [matches |-> IF includesCI(text, "call me") THEN 1 ELSE 0, weight |-> 15, name |-> "Request for call"],
  [matches |-> IF includesCI(text, "phone") THEN 1 ELSE 0, weight |-> 10, name |-> "Phone mentioned"]
>>

\* pattern.test(fullText) of each TIME_PATTERNS entry
TIME_PATTERNS(text) == <<
  [test |-> includesCI(text, "today"), weight |-> 15, name |-> "Today mentioned"],
  [test |-> includesCI(text, "tonight"), weight |-> 15, name |-> "Tonight mentioned"],
  [test |-> includesCI(text, "this morning"), weight |-> 15, name |-> "This morning"],
  [test |-> includesCI(text, "this afternoon"), weight |-> 15, name |-> "This afternoon"],
  [test |-> includesCI(text, "right now"), weight |-> 20, name |-> "Right now"],
  [test |-> includesCI(text, "immediately"), weight |-> 20, name |-> "Immediately"],
  [test |-> DigitsBefore(text, "minutes"), weight |-> 15, name |-> "Minutes mentioned"],
  [test |-> DigitsBefore(text, "hours"), weight |-> 10, name |-> "Hours mentioned"],
  [test |-> includesCI(text, "end of day"), weight |-> 15, name |-> "End of day"],
  [test |-> includesCI(text, "eod"), weight |-> 15, name |-> "EOD"]
>>

RECURSIVE SumOf(_, _)
SumOf(weights, i) == IF i > Len(weights) THEN 0 ELSE weights[i] + SumOf(weights, i + 1)

MinOf(a, b) == IF a < b THEN a ELSE b

MaxOf(a, b) == IF a > b THEN a ELSE b

Take(seq, n) == SubSeq(seq, 1, MinOf(Len(seq), n))

\* the entries of a keyword table that fullText includes
KeywordHits(table, fullText) ==
  SelectSeq(table, LAMBDA e : includes(fullText, toLowerCase(e.keyword)))

\* the loops of analyzeUrgency without the cap of three matches per panic
\* pattern
ScanUrgency_uncapped(content, subject) ==
  LET originalText == subject \o "\n" \o content
      fullText == toLowerCase(originalText)
      urgencyHits == KeywordHits(URGENCY_KEYWORDS, fullText)
      impactHits == KeywordHits(IMPACT_KEYWORDS, fullText)
      panicHits == SelectSeq(PANIC_PATTERNS(originalText), LAMBDA p : p.matches > 0)
      timeHits == SelectSeq(TIME_PATTERNS(fullText), LAMBDA p : p.test)
      urgencyReasons == SelectSeq(urgencyHits, LAMBDA e : e.weight >= 20)
      impactReasons == SelectSeq(impactHits, LAMBDA e : e.weight >= 20)
      detectedKeywords == [k \in 1..Len(urgencyHits) |-> urgencyHits[k].keyword]
                            \o [k \in 1..Len(impactHits) |-> impactHits[k].keyword]
      compound == Len(detectedKeywords) >= 3
  IN [score |-> SumOf([k \in 1..Len(urgencyHits) |-> urgencyHits[k].weight], 1)
                + SumOf([k \in 1..Len(impactHits) |-> impactHits[k].weight], 1)
                + SumOf([k \in 1..Len(panicHits) |->
                           panicHits[k].weight * panicHits[k].matches], 1)
                + SumOf([k \in 1..Len(timeHits) |-> timeHits[k].weight], 1)
                + (IF compound THEN 15 ELSE 0),
      detectedKeywords |-> detectedKeywords,
      reasons |-> [k \in 1..Len(urgencyReasons) |->
                     "Contains \"" \o urgencyReasons[k].keyword \o "\""]
                  \o [k \in 1..Len(impactReasons) |->
                        "Business impact: \"" \o impactReasons[k].keyword \o "\""]
                  \o [k \in 1..Len(panicHits) |-> panicHits[k].name]
                  \o [k \in 1..Len(timeHits) |-> timeHits[k].name]
                  \o (IF compound THEN <<"Multiple urgency indicators">> ELSE <<>>)]

\* the loops of analyzeUrgency: the score before it is normalized, the
\* detected keywords and the reasons, in the order they are pushed
ScanUrgency(content, subject) ==
  LET originalText == subject \o "\n" \o content
      fullText == toLowerCase(originalText)
      urgencyHits == KeywordHits(URGENCY_KEYWORDS, fullText)
      impactHits == KeywordHits(IMPACT_KEYWORDS, fullText)
      panicHits == SelectSeq(PANIC_PATTERNS(originalText), LAMBDA p : p.matches > 0)
      timeHits == SelectSeq(TIME_PATTERNS(fullText), LAMBDA p : p.test)
      urgencyReasons == SelectSeq(urgencyHits, LAMBDA e : e.weight >= 20)
      impactReasons == SelectSeq(impactHits, LAMBDA e : e.weight >= 20)
      detectedKeywords == [k \in 1..Len(urgencyHits) |-> urgencyHits[k].keyword]
                            \o [k \in 1..Len(impactHits) |-> impactHits[k].keyword]
      compound == Len(detectedKeywords) >= 3
  IN [score |-> SumOf([k \in 1..Len(urgencyHits) |-> urgencyHits[k].weight], 1)
                + SumOf([k \in 1..Len(impactHits) |-> impactHits[k].weight], 1)
                + SumOf([k \in 1..Len(panicHits) |->
                           panicHits[k].weight * MinOf(panicHits[k].matches, 3)], 1)
                + SumOf([k \in 1..Len(timeHits) |-> timeHits[k].weight], 1)
                + (IF compound THEN 15 ELSE 0),
      detectedKeywords |-> detectedKeywords,
      reasons |-> [k \in 1..Len(urgencyReasons) |->
                     "Contains \"" \o urgencyReasons[k].keyword \o "\""]
                  \o [k \in 1..Len(impactReasons) |->
                        "Business impact: \"" \o impactReasons[k].keyword \o "\""]
                  \o [k \in 1..Len(panicHits) |-> panicHits[k].name]
                  \o [k \in 1..Len(timeHits) |-> timeHits[k].name]
                  \o (IF compound THEN <<"Multiple urgency indicators">> ELSE <<>>)]

\* the normalization without its upper bound: Math.max(0, score)
NormalizeScore_noCeiling(score) == MaxOf(0, score)

\* Math.min(100, Math.max(0, score))
NormalizeScore(score) == MinOf(100, MaxOf(0, score))

\* the mapping with `score > 35` for `score >= 35`
PriorityOf_strict(score) ==
  IF score >= 60 THEN 1
  ELSE IF score > 35 THEN 2
  ELSE IF score >= 15 THEN 3
  ELSE IF score < 0 THEN 4 ELSE 3

\* the mapping of the normalized score to a priority
PriorityOf(score) ==
  IF score >= 60 THEN 1
  ELSE IF score >= 35 THEN 2
  ELSE IF score >= 15 THEN 3
  ELSE IF score < 0 THEN 4 ELSE 3

analyzeUrgency(content, subject) ==
  LET scan == ScanUrgency(content, subject)
      score == NormalizeScore(scan.score)
      suggestedPriority == PriorityOf(score)
      reasons == IF score >= 60 /\ ~\E k \in 1..Len(scan.reasons) :
                                      includes(scan.reasons[k], "Urgent")
                   THEN <<"High urgency score detected">> \o scan.reasons
                   ELSE scan.reasons
  IN [score |-> score,
      suggestedPriority |-> suggestedPriority,
      reasons |-> Take(reasons, 5),
      keywords |-> Take(scan.detectedKeywords, 10)]

getPriorityName(p) ==
  CASE p = 1 -> "Urgent"
    [] p = 2 -> "High"
    [] p = 3 -> "Normal"
    [] p = 4 -> "Low"
    [] OTHER -> "Normal"

\* combinePriority that keeps the priority the AI suggested
combinePriority_keepsAi(aiPriority, detectedPriority) == aiPriority

\* Math.min(aiPriority, detectedPriority)
combinePriority(aiPriority, detectedPriority) == MinOf(aiPriority, detectedPriority)

(***************************************************************************)
(* Metadata extractor and routing resolver: emailRouting.ts                *)
(***************************************************************************)
INTERNAL_DOMAIN == "weapply.se"

\* \w
WordSet == UpperSet \cup LowerSet \cup DigitSet \cup {"_"}

\* [\w.-]
EmailCharSet == WordSet \cup {".", "-"}

SpaceSet == {" ", "\t", "\n", "\r"}

\* first position >= i holding a character of the set stops (the end of a
\* greedy [^stops]* that starts at i)
SkipUntil(s, stops, i) ==
  IF i > Len(s) THEN i
  ELSE Min({j \in i..(Len(s) + 1) : j = Len(s) + 1 \/ CharAt(s, j) \in stops})

\* s.replace(/[)\]>]+$/, '')
RECURSIVE stripTrailing(_)
stripTrailing(s) ==
  IF Len(s) > 0 /\ CharAt(s, Len(s)) \in {")", "]", ">"}
    THEN stripTrailing(SubSeq(s, 1, Len(s) - 1)) ELSE s

\* extractDomain without the toLowerCase() of line 197
extractDomain_keepsCase(address) ==
  IF address = "" \/ ~includes(address, "@") THEN ""
  ELSE LET a == IndexOfChar(address, "@", 1)
           b == IndexOfChar(address, "@", a + 1)
       IN trim(stripTrailing(SubSeq(address, a + 1, IF b = 0 THEN Len(address) ELSE b - 1)))

extractDomain(address) ==
  IF address = "" \/ ~includes(address, "@") THEN ""
  ELSE trim(stripTrailing(SplitAtDomain(address)))

\* a match of /mailto:([^)\s]+)/ that starts at position i: the position
\* after the match, or 0
MailtoEnd(s, i) ==
  IF ~StartsAt(s, i, "mailto:") THEN 0
  ELSE LET e == SkipUntil(s, SpaceSet \cup {")"}, i + 7)
       IN IF e = i + 7 THEN 0 ELSE e

\* [...content.matchAll(/mailto:([^)\s]+)/g)].map(m => m[1])
RECURSIVE MailtoEmails(_, _)
MailtoEmails(s, pos) ==
  LET starts == {i \in pos..Len(s) : MailtoEnd(s, i) # 0}
  IN IF starts = {} THEN <<>>
     ELSE LET i == Min(starts)
              e == MailtoEnd(s, i)
          IN <<SubSeq(s, i + 7, e - 1)>> \o MailtoEmails(s, e)

\* a match of /[\w.-]+@[\w.-]+\.\w+/ that starts at position i: the position
\* after the match, or 0.  The domain part is greedy and gives characters
\* back until a dot followed by a word character is left for \.\w+
RegularEmailEnd(s, i) ==
  LET at == SkipChars(s, EmailCharSet, i)
  IN IF at = i \/ ~StartsAt(s, at, "@") THEN 0
     ELSE LET stop == SkipChars(s, EmailCharSet, at + 1)
              dots == {k \in (at + 2)..(stop - 2) :
                         CharAt(s, k) = "." /\ CharAt(s, k + 1) \in WordSet}
          IN IF dots = {} THEN 0 ELSE SkipChars(s, WordSet, Max(dots) + 1)

\* content.match(/[\w.-]+@[\w.-]+\.\w+/g) || []
RECURSIVE RegularEmails(_, _)
RegularEmails(s, pos) ==
  LET starts == {i \in pos..Len(s) :
                   CharAt(s, i) \in EmailCharSet /\ RegularEmailEnd(s, i) # 0}
  IN IF starts = {} THEN <<>>
     ELSE LET i == Min(starts)
              e == RegularEmailEnd(s, i)
          IN <<SubSeq(s, i, e - 1)>> \o RegularEmails(s, e)

\* [...new Set(list)]: the first occurrence of every element, in order
Dedupe(list) ==
  LET keep == {k \in 1..Len(list) : \A j \in 1..(k - 1) : list[j] # list[k]}
      F[k \in 0..Len(list)] ==
        IF k = 0 THEN <<>>
        ELSE IF k \in keep THEN Append(F[k - 1], list[k]) ELSE F[k - 1]
  IN F[Len(list)]

\* the email addresses of the content in the order of the bare tokens, the
\* mailto: addresses last
AllEmails_regularFirst(content) ==
  SelectSeq(Dedupe(RegularEmails(content, 1) \o MailtoEmails(content, 1)),
            LAMBDA e : ~includes(e, "linear.app") /\ includes(e, "@"))

\* the email addresses of the content, mailto: addresses first
AllEmails(content) ==
  SelectSeq(Dedupe(MailtoEmails(content, 1) \o RegularEmails(content, 1)),
            LAMBDA e : ~includes(e, "linear.app") /\ includes(e, "@"))

\* the match of /From:\s*\[([^\]]+)\]\(mailto:([^)]+)\)/i with "From:" at
\* position i: group 2, or undefined
LinkedFromAt(s, i) ==
  LET open == SkipSpace(s, i + 5)
      close == SkipUntil(s, {"]"}, open + 1)
      addr == close + 9
      end == SkipUntil(s, {")"}, addr)
  IN IF /\ StartsAt(s, open, "[")
        /\ close > open + 1
        /\ StartsAtCI(s, close, "](mailto:")
        /\ end > addr
        /\ end <= Len(s)
       THEN SubSeq(s, addr, end - 1)
       ELSE undefined

\* positions >= pos where the linked form of a From: line matches
LinkedFroms(s, pos) ==
  {i \in OccurrencesCI(s, "From:") : i >= pos /\ LinkedFromAt(s, i) # undefined}

\* [^>\s\n@]+@[^>\s\n)]+ at position q: the address, or undefined
AddressAt(s, q) ==
  LET at == SkipUntil(s, SpaceSet \cup {">", "@"}, q)
      end == SkipUntil(s, SpaceSet \cup {">", ")"}, at + 1)
  IN IF at > q /\ StartsAt(s, at, "@") /\ end > at + 1
       THEN SubSeq(s, q, end - 1)
       ELSE undefined

\* <?([^>\s\n@]+@[^>\s\n)]+) at position q: the bracket is taken when the
\* address matches after it, and left to the address otherwise
BracketedAddressAt(s, q) ==
  IF StartsAt(s, q, "<") /\ AddressAt(s, q + 1) # undefined
    THEN AddressAt(s, q + 1)
    ELSE AddressAt(s, q)

\* "?\s*<?(address) after a display name that ends before position q
AfterName(s, q) ==
  IF StartsAt(s, q, "\"") /\ BracketedAddressAt(s, SkipSpace(s, q + 1)) # undefined
    THEN BracketedAddressAt(s, SkipSpace(s, q + 1))
    ELSE BracketedAddressAt(s, SkipSpace(s, q))

\* the match of
\*   /From:\s*(?:"?([^"<\n]+)"?\s*)?<?([^>\s\n@]+@[^>\s\n)]+)>?/i
\* with "From:" at position i (minName = 1), and of the same expression with
\* [^"<\n]* as the name (minName = 0).  The name is greedy: it is given the
\* longest run of characters and shortened one character at a time until
\* an address follows; the group is left out when no length works.
PlainFromAt(s, i, minName) ==
  LET start == SkipSpace(s, i + 5)
      nameStart == IF StartsAt(s, start, "\"") THEN start + 1 ELSE start
      nameStop == SkipUntil(s, {"\"", "<", "\n"}, nameStart)
      lengths == {n \in minName..(nameStop - nameStart) :
                    AfterName(s, nameStart + n) # undefined}
  IN IF lengths # {}
       THEN [name |-> SubSeq(s, nameStart, nameStart + Max(lengths) - 1),
             email |-> AfterName(s, nameStart + Max(lengths))]
       ELSE [name |-> undefined, email |-> BracketedAddressAt(s, start)]

\* positions >= pos where the plain form of a From: line matches
PlainFroms(s, pos, minName) ==
  {i \in OccurrencesCI(s, "From:") :
     i >= pos /\ PlainFromAt(s, i, minName).email # undefined}

\* /From:.*\nSent:.*\nTo:/i
FromSentTo(s) ==
  \E i \in OccurrencesCI(s, "From:") :
    LET nl1 == SkipUntil(s, {"\n", "\r"}, i + 5)
        nl2 == SkipUntil(s, {"\n", "\r"}, nl1 + 6)
    IN /\ StartsAt(s, nl1, "\n") /\ StartsAtCI(s, nl1 + 1, "Sent:")
       /\ StartsAt(s, nl2, "\n") /\ StartsAtCI(s, nl2 + 1, "To:")

hasForwardedHeader(content) ==
  \/ includesCI(content, "---------- Forwarded message")
  \/ includesCI(content, "Begin forwarded message")
  \/ includesCI(content, "----- Original Message -----")
  \/ FromSentTo(content)

\* end of the leftmost (?:Forwarded message|forwarded message|Original Message),
\* or 0: the lazy [^]*? starts there
MarkerEnd(s) ==
  LET ends == {i + 17 : i \in OccurrencesCI(s, "Forwarded message")}
                \cup {i + 16 : i \in OccurrencesCI(s, "Original Message")}
  IN IF ends = {} THEN 0 ELSE Min(ends)

\* the original sender of a forwarded email, or undefined
OriginalSender(content, allEmails, forwarderEmail) ==
  LET from == MarkerEnd(content)
      markdown == IF from = 0 THEN {} ELSE LinkedFroms(content, from)
      plain == IF from = 0 THEN {} ELSE PlainFroms(content, from, 0)
      otherEmails == SelectSeq(allEmails, LAMBDA e :
                       LET cleanEmail == toLowerCase(stripTrailing(e))
                       IN /\ cleanEmail # toLowerCase(forwarderEmail)
                          /\ ~includes(cleanEmail, "pm@weapply.se")
                          /\ ~includes(cleanEmail, "linear.app"))
  IN IF markdown # {}
       THEN toLowerCase(trim(stripTrailing(LinkedFromAt(content, Min(markdown)))))
     ELSE IF plain # {}
       THEN toLowerCase(trim(stripTrailing(PlainFromAt(content, Min(plain), 0).email)))
     ELSE IF otherEmails # <<>>
       THEN toLowerCase(stripTrailing(otherEmails[1]))
     ELSE undefined

\* x || y for optional strings
OrElse(x, y) == IF Truthy(x) THEN x ELSE y

\* the sender of the content: name and email
Sender(content, allEmails) ==
  LET linked == LinkedFroms(content, 1)
      plain == PlainFroms(content, 1, 1)
  IN IF linked # {}
       THEN [name |-> "",
             email |-> toLowerCase(trim(trim(stripTrailing(
                         LinkedFromAt(content, Min(linked))))))]
     ELSE IF plain # {}
       THEN LET m == PlainFromAt(content, Min(plain), 1)
            IN [name |-> IF m.name = undefined THEN "" ELSE trim(m.name),
                email |-> toLowerCase(trim(m.email))]
     ELSE IF allEmails # <<>> /\ allEmails[1] # ""
       THEN [name |-> "", email |-> toLowerCase(allEmails[1])]
     ELSE [name |-> "", email |-> ""]

\* the decision table without its final guard
Assignment_unguarded(senderEmail, senderDomain, isForwarded, forwarderEmail, forwarderDomain, originalSenderDomain, isInternal, isInternalForward, isExternalDirect) ==
  IF isInternal /\ ~isForwarded
    THEN [assignToEmail |-> senderEmail, clientDomain |-> undefined]
  ELSE IF isInternalForward
    THEN [assignToEmail |-> forwarderEmail,
          clientDomain |-> OrElse(originalSenderDomain, senderDomain)]
  ELSE IF isExternalDirect
    THEN [assignToEmail |-> undefined, clientDomain |-> senderDomain]
  ELSE IF isForwarded /\ forwarderDomain # INTERNAL_DOMAIN
    THEN [assignToEmail |-> undefined,
          clientDomain |-> OrElse(originalSenderDomain, senderDomain)]
  ELSE [assignToEmail |-> undefined, clientDomain |-> undefined]

\* the decision table with the client of an internal forward taken from the
\* sender (the forwarder) instead of the original sender
Assignment_senderAsClient(senderEmail, senderDomain, isForwarded, forwarderEmail, forwarderDomain, originalSenderDomain, isInternal, isInternalForward, isExternalDirect) ==
  LET derived ==
        IF isInternal /\ ~isForwarded
          THEN [assignToEmail |-> senderEmail, clientDomain |-> undefined]
        ELSE IF isInternalForward
          THEN [assignToEmail |-> forwarderEmail, clientDomain |-> senderDomain]
        ELSE IF isExternalDirect
          THEN [assignToEmail |-> undefined, clientDomain |-> senderDomain]
        ELSE IF isForwarded /\ forwarderDomain # INTERNAL_DOMAIN
          THEN [assignToEmail |-> undefined,
                clientDomain |-> OrElse(originalSenderDomain, senderDomain)]
        ELSE [assignToEmail |-> undefined, clientDomain |-> undefined]
  IN IF derived.clientDomain = INTERNAL_DOMAIN
       THEN [derived EXCEPT !.clientDomain = undefined]
       ELSE derived

\* the assignment and client domain of the routing classification
Assignment(senderEmail, senderDomain, isForwarded, forwarderEmail, forwarderDomain, originalSenderDomain, isInternal, isInternalForward, isExternalDirect) ==
  LET derived ==
        IF isInternal /\ ~isForwarded
          THEN [assignToEmail |-> senderEmail, clientDomain |-> undefined]
        ELSE IF isInternalForward
          THEN [assignToEmail |-> forwarderEmail,
                clientDomain |-> OrElse(originalSenderDomain, senderDomain)]
        ELSE IF isExternalDirect
          THEN [assignToEmail |-> undefined, clientDomain |-> senderDomain]
        ELSE IF isForwarded /\ forwarderDomain # INTERNAL_DOMAIN
          THEN [assignToEmail |-> undefined,
                clientDomain |-> OrElse(originalSenderDomain, senderDomain)]
        ELSE [assignToEmail |-> undefined, clientDomain |-> undefined]
  IN IF derived.clientDomain = INTERNAL_DOMAIN
       THEN [derived EXCEPT !.clientDomain = undefined]
       ELSE derived

\* the classification whose isExternalDirect forgets the forwarding flag
Classification_directWhenForwarded(sender, senderDomain, isForwarded, originalSenderEmail, originalSenderDomain) ==
  LET senderEmail == sender.email
      forwarderEmail == IF isForwarded THEN senderEmail ELSE undefined
      forwarderDomain == IF isForwarded THEN senderDomain ELSE undefined
      isInternal == senderDomain = INTERNAL_DOMAIN
      isInternalForward == isForwarded /\ forwarderDomain = INTERNAL_DOMAIN
      isExternalDirect == senderDomain # INTERNAL_DOMAIN
      assignment == Assignment(senderEmail, senderDomain, isForwarded, forwarderEmail,
                               forwarderDomain, originalSenderDomain,
                               isInternal, isInternalForward, isExternalDirect)
  IN [senderEmail |-> senderEmail,
      senderName |-> IF sender.name = "" THEN undefined ELSE sender.name,
      senderDomain |-> senderDomain,
      isForwarded |-> isForwarded,
      forwarderEmail |-> forwarderEmail,
      forwarderDomain |-> forwarderDomain,
      originalSenderEmail |-> originalSenderEmail,
      originalSenderDomain |-> originalSenderDomain,
      isInternal |-> isInternal,
      isInternalForward |-> isInternalForward,
      isExternalDirect |-> isExternalDirect,
      assignToEmail |-> assignment.assignToEmail,
      clientDomain |-> assignment.clientDomain]

\* the routing classification and the returned object (lines 145-188), from
\* the sender, the forwarding flag and the original sender found before
Classification(sender, senderDomain, isForwarded, originalSenderEmail, originalSenderDomain) ==
  LET senderEmail == sender.email
      forwarderEmail == IF isForwarded THEN senderEmail ELSE undefined
      forwarderDomain == IF isForwarded THEN senderDomain ELSE undefined
      isInternal == senderDomain = INTERNAL_DOMAIN
      isInternalForward == isForwarded /\ forwarderDomain = INTERNAL_DOMAIN
      isExternalDirect == ~isForwarded /\ senderDomain # INTERNAL_DOMAIN
      assignment == Assignment(senderEmail, senderDomain, isForwarded, forwarderEmail,
                               forwarderDomain, originalSenderDomain,
                               isInternal, isInternalForward, isExternalDirect)
  IN [senderEmail |-> senderEmail,
      senderName |-> IF sender.name = "" THEN undefined ELSE sender.name,
      senderDomain |-> senderDomain,
      isForwarded |-> isForwarded,
      forwarderEmail |-> forwarderEmail,
      forwarderDomain |-> forwarderDomain,
      originalSenderEmail |-> originalSenderEmail,
      originalSenderDomain |-> originalSenderDomain,
      isInternal |-> isInternal,
      isInternalForward |-> isInternalForward,
      isExternalDirect |-> isExternalDirect,
      assignToEmail |-> assignment.assignToEmail,
      clientDomain |-> assignment.clientDomain]

\* originalSenderDomain: set together with originalSenderEmail
DomainOfOriginal(originalSenderEmail) ==
  IF originalSenderEmail = undefined THEN undefined
  ELSE extractDomain(originalSenderEmail)

\* lines 145-188, once the original sender is known
WithOriginal(sender, isForwarded, originalSenderEmail) ==
  Classification(sender, extractDomain(sender.email), isForwarded,
                 originalSenderEmail, DomainOfOriginal(originalSenderEmail))

\* lines 107-143: the original sender is looked for only in a forwarded
\* email, whose forwarder is the sender
WithSender(content, allEmails, sender, isForwarded) ==
  WithOriginal(sender, isForwarded,
               IF isForwarded THEN OriginalSender(content, allEmails, sender.email)
               ELSE undefined)

\* lines 71-105: the sender and the forwarding flag
WithEmails(content, title, allEmails) ==
  WithSender(content, allEmails, Sender(content, allEmails),
             PrefixMatchLen(title, ForwardPrefixes) > 0 \/ hasForwardedHeader(content))

extractEmailMetadata(content, title) == WithEmails(content, title, AllEmails(content))

(***************************************************************************)
(* Labels and target project (emailRouting.ts)                             *)
(***************************************************************************)
PROJECT_IDS ==
  [MAIL_INBOX |-> "1f70f9a4-c945-402f-a0a5-77f0f207f1ea",
   SLACK_INTAKE |-> "76d888f2-2482-4c29-bebd-c5dc3a6436d9",
   REFINE_QUEUE |-> "5ddfdf70-180b-472b-83a5-5a3ecbe70384",
   LINEAR_AUTOMATION |-> "5d992f68-4c78-4294-91d9-294808bf1d49",
   GENERAL |-> "8b02c3f0-a9db-49b5-8026-a2f5cacda2f5",
   PROJECT_MANAGEMENT |-> "335e96f1-490d-41a8-8676-248329f37e4c",
   CLIENTS |-> "5186127d-5e90-4d63-8b20-bc522c2e4a5d",
   EXTERNAL |-> "977387e2-8409-4a2d-9661-9fe98bbd0870"]

getSourceLabels(m) ==
  IF m.isInternalForward THEN <<"Internal Forward">>
  ELSE IF m.isExternalDirect THEN <<"External Direct">>
  ELSE IF m.isForwarded THEN <<"Forwarded">>
  ELSE <<"Email">>

\* getTargetProjectId whose external-direct row ignores hasClientLabel
getTargetProjectId_alwaysClients(m, hasClientLabel) ==
  IF m.isInternal /\ ~m.isForwarded THEN PROJECT_IDS.MAIL_INBOX
  ELSE IF m.isInternalForward /\ Truthy(m.clientDomain)
    THEN IF hasClientLabel THEN PROJECT_IDS.CLIENTS ELSE PROJECT_IDS.EXTERNAL
  ELSE IF m.isExternalDirect THEN PROJECT_IDS.CLIENTS
  ELSE PROJECT_IDS.MAIL_INBOX

getTargetProjectId(m, hasClientLabel) ==
  IF m.isInternal /\ ~m.isForwarded THEN PROJECT_IDS.MAIL_INBOX
  ELSE IF m.isInternalForward /\ Truthy(m.clientDomain)
    THEN IF hasClientLabel THEN PROJECT_IDS.CLIENTS ELSE PROJECT_IDS.EXTERNAL
  ELSE IF m.isExternalDirect
    THEN IF hasClientLabel THEN PROJECT_IDS.CLIENTS ELSE PROJECT_IDS.EXTERNAL
  ELSE PROJECT_IDS.MAIL_INBOX

\* domain.replace(/^www\./, '') behind the "Client: " prefix
getClientLabelName(domain) ==
  "Client: " \o (IF StartsAt(domain, 1, "www.") THEN From(domain, 5) ELSE domain)

skipDomains ==
  {"gmail.com", "googlemail.com", "yahoo.com", "yahoo.se",
   "hotmail.com", "outlook.com", "live.com", "msn.com",
   "icloud.com", "me.com", "mac.com", "protonmail.com", "proton.me",
   "aol.com", "mail.com", "zoho.com", "yandex.com"}

\* shouldCreateClientLabel without the list of personal email providers
shouldCreateClientLabel_noSkip(domain) ==
  Truthy(domain) /\ domain # INTERNAL_DOMAIN

\* shouldCreateClientLabel comparing the list without domain.toLowerCase()
shouldCreateClientLabel_exactCase(domain) ==
  /\ Truthy(domain)
  /\ domain # INTERNAL_DOMAIN
  /\ domain \notin skipDomains

shouldCreateClientLabel(domain) ==
  /\ Truthy(domain)
  /\ domain # INTERNAL_DOMAIN
  /\ toLowerCase(domain) \notin skipDomains

(***************************************************************************)
(* Processing gate of the webhook (webhook router)                         *)
(***************************************************************************)
PROCESSING_COOLDOWN_MS == 30000

\* the issue is in the map, its timestamp is truthy and younger than the
\* cooldown
isRecentlyProcessed(cache, issueId, t) ==
  /\ issueId \in DOMAIN cache
  /\ cache[issueId] # 0
  /\ t - cache[issueId] < PROCESSING_COOLDOWN_MS

\* processingCache.set(issueId, Date.now()), then the entries older than five
\* minutes are deleted
markAsProcessing(cache, issueId, t) ==
  LET set == [id \in DOMAIN cache \cup {issueId} |-> IF id = issueId THEN t ELSE cache[id]]
      fiveMinutesAgo == t - 300000
  IN [id \in {k \in DOMAIN set : ~(set[k] < fiveMinutesAgo)} |-> set[id]]

(***************************************************************************)
(* The linker as a state machine                                           *)
(***************************************************************************)
\* issue ids are opaque: the items are numbered in their order of arrival
ItemIds(maxCache) == {"i" \o CharAt(DigitChars, k + 1) : k \in 1..maxCache}

IdentifierOf(issueId) == "PM-" \o From(issueId, 2)

FreshId(cache, maxCache) ==
  LET free == {k \in 1..maxCache : ~MapHas(cache, "i" \o CharAt(DigitChars, k + 1))}
  IN "i" \o CharAt(DigitChars, (CHOOSE k \in free : \A j \in free : k <= j) + 1)

\* the sender and subject of the emails whose tickets are recorded
RecordedEmails ==
  {[senderEmail |-> "Anna@Acme.com", subject |-> "Login bug"],
   [senderEmail |-> "bob@acme.com", subject |-> "Login bug"],
   [senderEmail |-> "Anna@Acme.com", subject |-> "Re:  Invoice 7"]}

MessageIds == {undefined, "m1@acme.com"}

\* the sender and subject of the emails related tickets are looked up for
QueryEmails ==
  {[senderEmail |-> "anna@acme.com", subject |-> "FW: login"],
   [senderEmail |-> "anna@acme.com", subject |-> "RE: Login Bug"],
   [senderEmail |-> "carl@other.org", subject |-> "RE: Login Bug"],
   [senderEmail |-> "bob@acme.com", subject |-> "Re: Re:  Invoice 7"]}

QueryContents ==
  {"",
   "In-Reply-To: <m1@acme.com>\n\nHello",
   "in-reply-to:<m1@acme.com>\nReferences: <m0@acme.com> <m1@acme.com>\nHello"}

\* instants the clock can show: before and after the 7 days of the retention
Instants == {0, CACHE_TTL_DAYS * 24 + TickStep}

\* and around the 24 hour boundary of the recency fallback
RecentInstants == {0, TickStep, RECENT_HOURS}

\* no email is being processed
NoEmail == [content |-> "", subject |-> ""]

NoAnalysis == [score |-> 0, suggestedPriority |-> 3, reasons |-> <<>>, keywords |-> <<>>]

NoPriority == [aiPriority |-> 3, detectedPriority |-> 3, finalPriority |-> 3]

NoMetadata ==
  [senderEmail |-> "", senderName |-> undefined, senderDomain |-> "",
   isForwarded |-> FALSE, forwarderEmail |-> undefined, forwarderDomain |-> undefined,
   originalSenderEmail |-> undefined, originalSenderDomain |-> undefined,
   isInternal |-> FALSE, isInternalForward |-> FALSE, isExternalDirect |-> FALSE,
   assignToEmail |-> undefined, clientDomain |-> undefined]

\* instants of Date.now(): the start of the process, 20 seconds, 30 seconds
\* and more than five minutes later
GateInstants == {100000, 120000, 130000, 430000}

\* a delivery that has not arrived yet
NoDelivery == [issueId |-> undefined, pc |-> "pending"]

\* the module state after load: empty maps, nothing in progress
InitLinker ==
  /\ processingCache = [id \in {} |-> 0]
  /\ clock = 100000
  /\ handlers = [h \in 1..MaxDeliveries |-> NoDelivery]
  /\ ticketCache = <<>>
  /\ messageIdIndex = <<>>
  /\ now = 0
  /\ lastCall = "idle"
  /\ swept = {}
  /\ query = NoQuery
  /\ related = <<>>

\* extractDomain has not been called
\* no issue has been routed
NoRoute ==
  [isFromSlack |-> FALSE, eligible |-> FALSE, labelCreated |-> FALSE, hasClientLabel |-> FALSE,
   additionalLabels |-> <<>>, targetProjectId |-> undefined]

InitResults ==
  /\ urgency = NoAnalysis
  /\ priority = NoPriority
  /\ metadata = NoMetadata
  /\ extracted = [email |-> "", domain |-> ""]
  /\ labels = <<>>
  /\ route = NoRoute

Init == InitLinker /\ InitResults /\ email = NoEmail

\* a webhook records the ticket of an email
RecordIn(maxCache, emails, messageIds) ==
  /\ lastCall # "findRelatedTickets"
  /\ \E issueId \in ItemIds(maxCache), received \in emails, messageId \in messageIds :
       /\ \/ MapHas(ticketCache, issueId)
          \/ Len(ticketCache) < maxCache /\ issueId = FreshId(ticketCache, maxCache)
       /\ recordTicket(issueId, IdentifierOf(issueId), received.senderEmail,
                       received.subject, messageId)

\* the lookup with a sweep of the expired records before it
FindRelatedIn_sweeps(emails, contents) ==
  /\ lastCall # "findRelatedTickets"
  /\ \E received \in emails, content \in contents :
       LET cleaned == cleanupCache(ticketCache, messageIdIndex, now)
       IN /\ query' = [senderEmail |-> received.senderEmail,
                       subject |-> received.subject, content |-> content]
          /\ related' = findRelatedTickets(cleaned.cache, cleaned.index, now,
                                           received.senderEmail, received.subject, content)
          /\ ticketCache' = cleaned.cache
          /\ messageIdIndex' = cleaned.index
          /\ lastCall' = "findRelatedTickets"
          /\ UNCHANGED <<now, swept>>
          /\ UNCHANGED <<emailVars, gateVars>>

\* a webhook looks for the tickets related to an email
FindRelatedIn(emails, contents) ==
  /\ lastCall # "findRelatedTickets"
  /\ \E received \in emails, content \in contents :
       /\ query' = [senderEmail |-> received.senderEmail,
                    subject |-> received.subject, content |-> content]
       /\ related' = findRelatedTickets(ticketCache, messageIdIndex, now,
                                        received.senderEmail, received.subject, content)
       /\ lastCall' = "findRelatedTickets"
       /\ UNCHANGED <<ticketCache, messageIdIndex, now, swept>>
       /\ UNCHANGED <<emailVars, gateVars>>

\* the caller takes the list findRelatedTickets returned
Return ==
  /\ lastCall = "findRelatedTickets"
  /\ lastCall' = "idle"
  /\ query' = NoQuery
  /\ related' = <<>>
  /\ UNCHANGED <<ticketCache, messageIdIndex, now, swept>>
  /\ UNCHANGED <<emailVars, gateVars>>

\* time passes between two calls
TickIn(instants) ==
  /\ lastCall # "findRelatedTickets"
  /\ \E t \in instants :
       /\ t > now
       /\ now' = t
       /\ lastCall' = "idle"
       /\ UNCHANGED <<ticketCache, messageIdIndex, swept, query, related>>
       /\ UNCHANGED <<emailVars, gateVars>>

Record == RecordIn(MaxCache, RecordedEmails, MessageIds)

FindRelated == FindRelatedIn(QueryEmails, QueryContents)

Tick == TickIn(Instants)

Next == Record \/ FindRelated \/ Return \/ Tick

Spec == Init /\ [][Next]_vars

\* the same machine within one day, with room for more than MAX_SUGGESTIONS
\* tickets and emails that carry no Message-ID
RecentEmails ==
  {[senderEmail |-> "Anna@Acme.com", subject |-> "Login bug"],
   [senderEmail |-> "bob@acme.com", subject |-> "Login bug"]}

RecentQueryEmails ==
  {[senderEmail |-> "anna@acme.com", subject |-> "Payment"],
   [senderEmail |-> "anna@acme.com", subject |-> "FW: login"]}

RecordRecent == RecordIn(MaxRecent, RecentEmails, {undefined})

FindRecent == FindRelatedIn(RecentQueryEmails, {""})

TickRecent == TickIn(RecentInstants)

NextRecent == RecordRecent \/ FindRecent \/ Return \/ TickRecent

SpecRecent == Init /\ [][NextRecent]_vars

(***************************************************************************)
(* The urgency scorer applied to emails                                    *)
(***************************************************************************)
UrgencySubjects ==
  {"", "Low priority idea", "Dashboard changes", "Need fix today",
   "URGENT: server down!!!", "Question"}

UrgencyContents ==
  {"",
   "When you have time, no rush, nice to have",
   "Hello, please update the dashboard layout",
   "Whenever",
   "The report is overdue",
   "The build is stuck",
   "Invoice is late, we keep waiting",
   "Our customers are blocked by this error",
   "please\nhelp: call me in 30 minutes",
   "PLEASE HELP!!! The system crashed and we cannot access anything!!!",
   "URGENT EMERGENCY CRITICAL ASAP!!! HELP!!! Security breach! Customers affected! Production down! We are LOSING MONEY!!!",
   "The deadline is end of day.",
   "We keep waiting, the deadline is Friday.",
   "Hello!! Is anyone there!! Hello!! Anyone!!"}

Priorities == 1..4

InitUrgency ==
  /\ InitLinker /\ InitResults
  /\ email \in [content : UrgencyContents, subject : UrgencySubjects]

AnalyzeUrgency ==
  /\ lastCall = "idle"
  /\ urgency' = analyzeUrgency(email.content, email.subject)
  /\ lastCall' = "analyzeUrgency"
  /\ UNCHANGED <<email, priority, metadata>>
  /\ UNCHANGED <<extracted, labels, route>>
  /\ UNCHANGED <<linkerVars, gateVars>>

\* combinePriority called with two priorities, as contentRefiner.ts and the
\* tests call it
CombinePriority ==
  /\ lastCall = "analyzeUrgency"
  /\ \E aiPriority \in Priorities, detectedPriority \in Priorities :
       priority' = [aiPriority |-> aiPriority,
                    detectedPriority |-> detectedPriority,
                    finalPriority |-> combinePriority(aiPriority, detectedPriority)]
  /\ lastCall' = "combinePriority"
  /\ UNCHANGED <<email, urgency, metadata>>
  /\ UNCHANGED <<extracted, labels, route>>
  /\ UNCHANGED <<linkerVars, gateVars>>

NextUrgency == AnalyzeUrgency \/ CombinePriority

SpecUrgency == InitUrgency /\ [][NextUrgency]_vars

(***************************************************************************)
(* The metadata extractor applied to emails                                *)
(***************************************************************************)
RoutingHeaders ==
  {"From: [Pelle Nyman](mailto:pelle@weapply.se)\nTo: [pm](mailto:pm@weapply.se)\n\n",
   "From: [Client](mailto:client@acme.com)\nTo: [pm](mailto:pm@weapply.se)\n\n",
   "From: \"Pelle\" <pelle@weapply.se>\n",
   "From: Kim <kim@gmail.com>\n",
   "From: anna@bigcorp.com\n",
   "Some content with pelle@weapply.se in the body\n",
   "Reported by bob@partner.org via [Ann](mailto:ann@client.com)\n",
   "Sent by notifications@linear.app for Kim.Berg@Example.com\n",
   "Hello, no sender here\n"}

\* forwarded bodies: a marker followed by a nested From: line, and the address
\* that line carries
NestedForwards ==
  {[body |-> "---------- Forwarded message ----------\nFrom: [John](mailto:john@client.com)\n\nOriginal content",
    from |-> "john@client.com"],
   [body |-> "Begin forwarded message:\n\nFrom: Eve <eve@weapply.se>\n",
    from |-> "eve@weapply.se"],
   [body |-> "---------- Forwarded message ----------\nFrom: john@client.com\nSubject: Hi",
    from |-> "john@client.com"],
   [body |-> "----- Original Message -----\nFrom: Ann <ann@partner.org>\nFrom: [John](mailto:john@client.com)\n",
    from |-> "john@client.com"]}

RoutingBodies ==
  {"Hello, this is a test.",
   "----- Original Message -----\nplease see, cc bob@partner.org and pm@weapply.se",
   "From: x\nSent: Monday\nTo: y"}
  \cup {n.body : n \in NestedForwards}

RoutingTitles == {"Test", "Fwd: Client Request"}

RoutingContents == {h \o b : h \in RoutingHeaders, b \in RoutingBodies}

InitRouting ==
  /\ InitLinker /\ InitResults
  /\ email \in [content : RoutingContents, subject : RoutingTitles]

ExtractEmailMetadata ==
  /\ lastCall = "idle"
  /\ metadata' = extractEmailMetadata(email.content, email.subject)
  /\ lastCall' = "extractEmailMetadata"
  /\ UNCHANGED <<email, urgency, priority>>
  /\ UNCHANGED <<extracted, labels, route>>
  /\ UNCHANGED <<linkerVars, gateVars>>

\* the webhook handler chooses the client label, the target project and the
\* source labels of the issue whose metadata it has extracted
RouteIssue ==
  /\ lastCall = "extractEmailMetadata"
  /\ LET eligible == /\ Truthy(metadata.clientDomain)
                      /\ shouldCreateClientLabel(metadata.clientDomain)
     IN \E isFromSlack \in BOOLEAN,
           labelCreated \in (IF eligible THEN BOOLEAN ELSE {FALSE}) :
          LET hasClientLabel == eligible /\ labelCreated
              additionalLabels ==
                IF eligible
                  THEN IF labelCreated
                         THEN <<getClientLabelName(metadata.clientDomain)>>
                         ELSE <<>>
                ELSE IF \/ metadata.isExternalDirect
                        \/ metadata.isForwarded /\ ~metadata.isInternalForward
                  THEN <<"Unknown Sender">>
                ELSE <<>>
          IN /\ route' = [isFromSlack |-> isFromSlack,
                          eligible |-> eligible,
                          labelCreated |-> labelCreated,
                          hasClientLabel |-> hasClientLabel,
                          additionalLabels |-> additionalLabels,
                          targetProjectId |->
                            IF isFromSlack THEN PROJECT_IDS.SLACK_INTAKE
                            ELSE getTargetProjectId(metadata, hasClientLabel)]
             /\ labels' = IF isFromSlack THEN <<"Slack">>
                          ELSE getSourceLabels(metadata)
  /\ lastCall' = "routeIssue"
  /\ UNCHANGED <<email, urgency, priority, metadata, extracted>>
  /\ UNCHANGED <<linkerVars, gateVars>>

\* shouldCreateClientLabel called with a domain, as the tests call it:
\* extracted holds the argument, route.eligible the result
ShouldCreateClientLabel ==
  /\ lastCall = "idle"
  /\ \E domain \in {"", "weapply.se", "WeApply.SE", "gmail.com", "GMAIL.COM", "Hotmail.com",
                     "icloud.com", "acme.com", "bigcorp.io", "client.se", "www.acme.com"} :
       /\ extracted' = [email |-> "", domain |-> domain]
       /\ route' = [NoRoute EXCEPT !.eligible = shouldCreateClientLabel(domain)]
  /\ lastCall' = "shouldCreateClientLabel"
  /\ UNCHANGED <<email, urgency, priority, metadata, labels>>
  /\ UNCHANGED <<linkerVars, gateVars>>

NextRouting == ExtractEmailMetadata \/ RouteIssue \/ ShouldCreateClientLabel

SpecRouting == InitRouting /\ [][NextRouting]_vars

(***************************************************************************)
(* The resolver functions called on their own, as the tests call them      *)
(***************************************************************************)
\* the EmailMetadata values the extractor builds from four senders, direct and
\* forwarded
MetadataValues ==
  LET senders == {[name |-> "", email |-> ""],
                  [name |-> "Pelle", email |-> "pelle@weapply.se"],
                  [name |-> "Client", email |-> "client@acme.com"],
                  [name |-> "Kim", email |-> "kim@gmail.com"]}
      originals == {undefined, "john@client.com", "eve@weapply.se", "kim@gmail.com"}
  IN {WithOriginal(sender, FALSE, undefined) : sender \in senders}
     \cup {WithOriginal(sender, TRUE, original) : sender \in senders, original \in originals}

InitResolver ==
  /\ InitLinker
  /\ email = NoEmail
  /\ urgency = NoAnalysis
  /\ priority = NoPriority
  /\ metadata \in MetadataValues
  /\ extracted = [email |-> "", domain |-> ""]
  /\ labels = <<>>
  /\ route = NoRoute

GetSourceLabels ==
  /\ lastCall = "idle"
  /\ labels' = getSourceLabels(metadata)
  /\ lastCall' = "getSourceLabels"
  /\ UNCHANGED <<email, urgency, priority, metadata, extracted, route>>
  /\ UNCHANGED <<linkerVars, gateVars>>

GetTargetProjectId ==
  /\ lastCall = "idle"
  /\ \E hasClientLabel \in BOOLEAN :
       route' = [NoRoute EXCEPT !.hasClientLabel = hasClientLabel,
                                !.targetProjectId =
                                  getTargetProjectId(metadata, hasClientLabel)]
  /\ lastCall' = "getTargetProjectId"
  /\ UNCHANGED <<email, urgency, priority, metadata, extracted, labels>>
  /\ UNCHANGED <<linkerVars, gateVars>>

ExtractDomain ==
  /\ lastCall = "idle"
  /\ \E address \in {"", "invalid", "test@example.com", "User@WeApply.SE", "test@example.com)",
                      "test@example.com>", "john@client.com)]>", "a@acme.com.", "kim@gmail.com,",
                      "a@b.com) ", "x@y.org@z.com", "user@"} :
       extracted' = [email |-> address, domain |-> extractDomain(address)]
  /\ lastCall' = "extractDomain"
  /\ UNCHANGED <<email, urgency, priority, metadata, labels, route>>
  /\ UNCHANGED <<linkerVars, gateVars>>

NextResolver == GetSourceLabels \/ GetTargetProjectId \/ ExtractDomain

SpecResolver == InitResolver /\ [][NextResolver]_vars

(***************************************************************************)
(* Deliveries of the webhook passing the processing gate                   *)
(***************************************************************************)
\* the next delivery arrives: the handler runs from its start to its first
\* await, i.e. through the cooldown check and markAsProcessing
Deliver ==
  \E h \in 1..MaxDeliveries, issueId \in {"i1", "i2"} :
    /\ handlers[h].pc = "pending"
    /\ \A g \in 1..(h - 1) : handlers[g].pc # "pending"
    /\ IF isRecentlyProcessed(processingCache, issueId, clock)
         THEN /\ handlers' = [handlers EXCEPT ![h] = [issueId |-> issueId, pc |-> "skipped"]]
              /\ UNCHANGED processingCache
         ELSE /\ handlers' = [handlers EXCEPT ![h] = [issueId |-> issueId, pc |-> "getIssue"]]
              /\ processingCache' = markAsProcessing(processingCache, issueId, clock)
    /\ UNCHANGED <<clock, lastCall, linkerVars, emailVars>>

\* an await of the handler returns: the issue was fetched (or not found, or
\* needs no refinement), the email was refined, the issue was updated and
\* the response sent
Advance ==
  \E h \in 1..MaxDeliveries :
    /\ handlers[h].pc \in {"getIssue", "processEmail", "updateLinearIssue"}
    /\ \E pc \in (CASE handlers[h].pc = "getIssue" -> {"processEmail", "responded"}
                    [] handlers[h].pc = "processEmail" -> {"updateLinearIssue"}
                    [] OTHER -> {"responded"}) :
         handlers' = [handlers EXCEPT ![h].pc = pc]
    /\ UNCHANGED <<processingCache, clock, lastCall, linkerVars, emailVars>>

\* time passes while handlers wait
TickGate ==
  /\ \E t \in GateInstants : t > clock /\ clock' = t
  /\ UNCHANGED <<processingCache, handlers, lastCall, linkerVars, emailVars>>

NextGate == Deliver \/ Advance \/ TickGate

SpecGate == Init /\ [][NextGate]_vars

(***************************************************************************)
(* Properties of the conversation linker                                   *)
(***************************************************************************)
Records == {ticketCache[k] : k \in 1..Len(ticketCache)}

Matches == {related[k] : k \in 1..Len(related)}

Found == lastCall = "findRelatedTickets"

Tier1 == ThreadMatches(ticketCache, messageIdIndex, ThreadRefs(query.content))

Tier2 == SubjectMatches(ticketCache, query.senderEmail, query.subject)

Tier3 == SenderMatches(ticketCache, query.senderEmail, query.subject)

\* the tier a match was produced by, read from its matchType and confidence
TierOf(match) ==
  IF match.matchType = "thread" /\ match.confidence = "high" THEN 1
  ELSE IF match.matchType = "subject" /\ match.confidence = "high" THEN 2
  ELSE IF match.matchType = "sender" /\ match.confidence = "medium" THEN 3
  ELSE IF match.matchType = "sender" /\ match.confidence = "low" THEN 4
  ELSE 0

\* C1: every record that carries a messageId has a reverse-lookup entry that
\* maps this messageId to the record's own issueId.
C1_ReverseEntryOfEveryRecord ==
  \A r \in Records :
    Truthy(r.messageId) => IndexGet(messageIdIndex, r.messageId) = r.issueId

\* C2: the matches findRelatedTickets returns all come from one tier, the
\* first tier (thread, subject + domain, sender + similar subject, recent)
\* that is not empty; no lower tier contributes to the list.
C2_FirstTierOnly ==
  Found =>
    /\ \A m \in Matches : TierOf(m) \in 1..4
    /\ \A m1, m2 \in Matches : TierOf(m1) = TierOf(m2)
    /\ Tier1 # <<>> => \A m \in Matches : TierOf(m) = 1
    /\ Tier1 = <<>> /\ Tier2 # <<>> => \A m \in Matches : TierOf(m) = 2
    /\ Tier1 = <<>> /\ Tier2 = <<>> /\ Tier3 # <<>> => \A m \in Matches : TierOf(m) = 3
    /\ Tier1 = <<>> /\ Tier2 = <<>> /\ Tier3 = <<>> => \A m \in Matches : TierOf(m) = 4
    /\ Tier1 # <<>> \/ Tier2 # <<>> \/ Tier3 # <<>> => related # <<>>

\* a thread match was returned although the subject tier had matches too
C2_Witness == Found /\ Tier1 # <<>> /\ Tier2 # <<>> /\ related # <<>>

\* C3: when a record carrying messageId m is in the index and the content's
\* In-Reply-To header names m, findRelatedTickets returns exactly one match:
\* that record's item, with matchType thread and confidence high.
C3_ReplyFindsItsItem ==
  Found =>
    \A r \in Records :
      Truthy(r.messageId) /\ extractInReplyTo(query.content) = r.messageId =>
        /\ Len(related) = 1
        /\ related[1].issueId = r.issueId
        /\ related[1].matchType = "thread"
        /\ related[1].confidence = "high"

\* C4: when recordTicket returns no record is older than the retention window,
\* the records it swept are gone together with their reverse entries, and a
\* later findRelatedTickets returns no match for a swept item (every match is
\* a record of the index).
C4_SweepOnEveryRecord ==
  /\ lastCall = "recordTicket" =>
       /\ \A r \in Records : now - r.createdAt <= CACHE_TTL_DAYS * 24
       /\ \A r \in swept :
            /\ ~MapHas(ticketCache, r.issueId)
            /\ Truthy(r.messageId) => r.messageId \notin DOMAIN messageIdIndex
  /\ Found =>
       \A m \in Matches :
         /\ MapHas(ticketCache, m.issueId)
         /\ m.issueId \notin {r.issueId : r \in swept}

\* a swept record's messageId is looked up by a later findRelatedTickets
C4_Witness ==
  /\ Found
  /\ \E r \in swept :
       /\ Truthy(r.messageId)
       /\ \E k \in 1..Len(ThreadRefs(query.content)) :
            ThreadRefs(query.content)[k] = r.messageId

\* records the recency fallback may return: same sender, younger than 24 hours
RecentCandidates ==
  {r \in Records : /\ r.senderEmail = toLowerCase(query.senderEmail)
                   /\ now - r.createdAt < RECENT_HOURS}

\* C5: when the tiers 1 to 3 are empty, findRelatedTickets returns the (up
\* to) 3 most recently created records of the sender that are younger than
\* 24 hours, each with confidence low: no record left out was created later
\* than a record that is returned.
C5_MostRecentThree ==
  Found /\ Tier1 = <<>> /\ Tier2 = <<>> /\ Tier3 = <<>> =>
    LET returned == {r \in RecentCandidates : \E m \in Matches : m.issueId = r.issueId}
    IN /\ \A m \in Matches : m.confidence = "low" /\ m.matchType = "sender"
       /\ \A m \in Matches : \E r \in RecentCandidates : r.issueId = m.issueId
       /\ Len(related) = IF Cardinality(RecentCandidates) < MAX_SUGGESTIONS
                           THEN Cardinality(RecentCandidates) ELSE MAX_SUGGESTIONS
       /\ \A r \in returned, o \in RecentCandidates \ returned :
            o.createdAt <= r.createdAt

(***************************************************************************)
(* Properties of the urgency scorer                                        *)
(***************************************************************************)
Analyzed == lastCall \in {"analyzeUrgency", "combinePriority"}

\* the sum of the matched weights before it is normalized
RawScore == ScanUrgency(email.content, email.subject).score

\* C6: the score analyzeUrgency returns lies in 0..100, whatever the sum of
\* the matched weights is.
C6_ScoreInRange == Analyzed => urgency.score \in 0..100

\* the matched weights sum above 100 and the score is 100
C6_Witness == Analyzed /\ RawScore > 100 /\ urgency.score = 100

\* C7: a negative sum of matched weights gives suggestedPriority 4 (Low), a
\* sum in 0..14 gives 3 (Normal).
C7_NegativeSumIsLow ==
  Analyzed =>
    /\ RawScore < 0 => urgency.suggestedPriority = 4
    /\ RawScore \in 0..14 => urgency.suggestedPriority = 3

\* C8: score >= 60 gives priority 1, 35..59 gives 2, 15..34 gives 3, and a
\* higher score never gives a numerically larger priority.
C8_PriorityThresholds ==
  /\ Analyzed =>
       /\ urgency.score >= 60 => urgency.suggestedPriority = 1
       /\ urgency.score \in 35..59 => urgency.suggestedPriority = 2
       /\ urgency.score \in 15..34 => urgency.suggestedPriority = 3
  /\ Analyzed =>
       \A lower \in 0..100 :
         /\ lower <= urgency.score => PriorityOf(lower) >= urgency.suggestedPriority
         /\ lower >= urgency.score => PriorityOf(lower) <= urgency.suggestedPriority

\* a score at the lower end of the High band
C8_Witness == Analyzed /\ urgency.score = 35 /\ urgency.suggestedPriority = 2

\* C9: combinePriority returns the smaller of its arguments: the result is
\* one of the two, not greater than either, in particular never greater
\* than the priority suggested from outside; swapping the arguments or
\* passing the same priority twice changes nothing.
C9_CombineIsMin ==
  lastCall = "combinePriority" =>
    /\ priority.finalPriority \in {priority.aiPriority, priority.detectedPriority}
    /\ priority.finalPriority <= priority.aiPriority
    /\ priority.finalPriority <= priority.detectedPriority
    /\ priority.finalPriority =
         combinePriority(priority.detectedPriority, priority.aiPriority)
    /\ combinePriority(priority.aiPriority, priority.aiPriority) = priority.aiPriority

\* the detected priority escalates the one suggested from outside
C9_Witness ==
  /\ lastCall = "combinePriority"
  /\ priority.detectedPriority < priority.aiPriority
  /\ priority.finalPriority = priority.detectedPriority

(***************************************************************************)
(* Properties of the metadata extractor                                    *)
(***************************************************************************)
Extracted == lastCall = "extractEmailMetadata"

\* originalSenderDomain if present else senderDomain
ClientOfForward == OrElse(metadata.originalSenderDomain, metadata.senderDomain)

\* the final guard: the internal domain is never a client
Guarded(domain) == IF domain = INTERNAL_DOMAIN THEN undefined ELSE domain

\* C10 as stated: the four rows of the decision table give assignToEmail
\* and clientDomain, the client domain being exactly the one the row names.
C10_DecisionTableUnguarded ==
  Extracted =>
    IF metadata.isInternal /\ ~metadata.isForwarded
      THEN /\ metadata.assignToEmail = metadata.senderEmail
           /\ metadata.clientDomain = undefined
    ELSE IF metadata.isInternalForward
      THEN /\ metadata.assignToEmail = metadata.forwarderEmail
           /\ metadata.clientDomain = ClientOfForward
    ELSE IF metadata.isExternalDirect
      THEN /\ metadata.assignToEmail = undefined
           /\ metadata.clientDomain = metadata.senderDomain
    ELSE IF metadata.isForwarded /\ metadata.forwarderDomain # INTERNAL_DOMAIN
      THEN /\ metadata.assignToEmail = undefined
           /\ metadata.clientDomain = ClientOfForward
    ELSE TRUE

\* C10 (amended): the first matching row of the decision table gives
\* assignToEmail and clientDomain (internal and not forwarded: the sender, no
\* client; internal forward: the forwarder, client originalSenderDomain if
\* present else senderDomain; external direct: nobody, client senderDomain;
\* forwarded by an external forwarder: nobody, client originalSenderDomain if
\* present else senderDomain), and a client domain equal to the internal
\* domain is discarded.
C10_DecisionTable ==
  Extracted =>
    IF metadata.isInternal /\ ~metadata.isForwarded
      THEN /\ metadata.assignToEmail = metadata.senderEmail
           /\ metadata.clientDomain = undefined
    ELSE IF metadata.isInternalForward
      THEN /\ metadata.assignToEmail = metadata.forwarderEmail
           /\ metadata.clientDomain = Guarded(ClientOfForward)
    ELSE IF metadata.isExternalDirect
      THEN /\ metadata.assignToEmail = undefined
           /\ metadata.clientDomain = Guarded(metadata.senderDomain)
    ELSE IF metadata.isForwarded /\ metadata.forwarderDomain # INTERNAL_DOMAIN
      THEN /\ metadata.assignToEmail = undefined
           /\ metadata.clientDomain = Guarded(ClientOfForward)
    ELSE TRUE

\* an internal forward of an email whose original sender is a client
C10_Witness ==
  /\ Extracted
  /\ metadata.isInternalForward
  /\ Truthy(metadata.originalSenderDomain)
  /\ metadata.originalSenderDomain # INTERNAL_DOMAIN
  /\ metadata.clientDomain = metadata.originalSenderDomain
  /\ metadata.assignToEmail = metadata.forwarderEmail

\* C11: the clientDomain extractEmailMetadata returns is never the internal
\* domain, whichever row of the decision table produced it.
C11_ClientNeverInternal ==
  lastCall \in {"extractEmailMetadata", "routeIssue"} =>
    metadata.clientDomain # INTERNAL_DOMAIN

\* an internal forward of an email whose original sender is internal too
C11_Witness ==
  /\ Extracted
  /\ metadata.isInternalForward
  /\ metadata.originalSenderDomain = INTERNAL_DOMAIN
  /\ metadata.clientDomain = undefined

\* C12 as stated: the clientDomain of the extractor's output is never a
\* personal email provider's domain nor the internal domain.
C12_ClientNeverPersonal ==
  Extracted => metadata.clientDomain \notin skipDomains \cup {INTERNAL_DOMAIN}

\* C12 (amended): clientDomain is absent when it would be the internal
\* domain; a personal email provider's domain is kept in clientDomain, but
\* shouldCreateClientLabel rejects it, so that no client label is assigned
\* for it.
C12_NoLabelForPersonal ==
  /\ Extracted \/ lastCall = "routeIssue" => metadata.clientDomain # INTERNAL_DOMAIN
  /\ lastCall = "routeIssue" /\ metadata.clientDomain \in skipDomains \cup {INTERNAL_DOMAIN, undefined, ""} =>
       /\ ~route.hasClientLabel
       /\ \A k \in 1..Len(route.additionalLabels) :
            ~StartsAt(route.additionalLabels[k], 1, "Client:")

\* an email from a personal address was routed without a client label
C12_Witness ==
  /\ lastCall = "routeIssue"
  /\ metadata.clientDomain = "gmail.com"
  /\ ~route.hasClientLabel
  /\ route.additionalLabels = <<"Unknown Sender">>

\* /^(Fwd?|FW|Fw):/i.test(title)
TitleForwarded ==
  StartsAtCI(email.subject, 1, "fw:") \/ StartsAtCI(email.subject, 1, "fwd:")

\* C13: isInternal holds exactly when senderDomain is the internal domain,
\* isInternalForward exactly when isForwarded and forwarderDomain is the
\* internal domain, isExternalDirect exactly when not isForwarded and
\* senderDomain is not the internal domain; isForwarded is the OR of the
\* subject prefix test and the body marker test.
C13_Classification ==
  Extracted =>
    /\ metadata.isInternal <=> metadata.senderDomain = INTERNAL_DOMAIN
    /\ metadata.isInternalForward <=>
         metadata.isForwarded /\ metadata.forwarderDomain = INTERNAL_DOMAIN
    /\ metadata.isExternalDirect <=>
         ~metadata.isForwarded /\ metadata.senderDomain # INTERNAL_DOMAIN
    /\ metadata.isForwarded <=> TitleForwarded \/ hasForwardedHeader(email.content)

\* an email forwarded by an external sender, recognised by its body only
C13_Witness ==
  /\ Extracted
  /\ ~TitleForwarded
  /\ metadata.isForwarded
  /\ metadata.senderDomain = "gmail.com"
  /\ ~metadata.isInternal /\ ~metadata.isInternalForward /\ ~metadata.isExternalDirect

C15_NoSenderGoesExternal ==
  email.content = "Hello, no sender here\nHello, this is a test." =>
    /\ Extracted \/ lastCall = "routeIssue" =>
         metadata.senderEmail = "" /\ metadata.senderDomain = ""
    /\ lastCall = "routeIssue" /\ ~route.isFromSlack =>
         ~route.hasClientLabel /\ route.targetProjectId = PROJECT_IDS.EXTERNAL

\* C16 as stated: extractDomain returns the lower-cased text after '@' with
\* every trailing non-alphanumeric character stripped, so that a non-empty
\* result ends with an alphanumeric character; '' for an empty input or an
\* input without '@'.
C16_EndsAlphanumeric ==
  lastCall = "extractDomain" =>
    LET address == extracted.email
        domain == extracted.domain
        at == IndexOfChar(address, "@", 1)
        alnum == UpperSet \cup LowerSet \cup DigitSet
        after == toLowerCase(From(address, at + 1))
        last == Max({0} \cup {k \in 1..Len(after) : CharAt(after, k) \in alnum})
    IN /\ at = 0 => domain = ""
       /\ at # 0 => domain = SubSeq(after, 1, last)
       /\ domain # "" => CharAt(domain, Len(domain)) \in alnum

\* C16 (amended): extractDomain returns the lower-cased text between the
\* first '@' and the next '@' (or the end), with a trailing run of the
\* characters ')' ']' '>' removed and the white space around the rest
\* trimmed; '' for an empty input or an input without '@'.
C16_StripsClosers ==
  lastCall = "extractDomain" =>
    LET address == extracted.email
        domain == extracted.domain
        at == IndexOfChar(address, "@", 1)
        next == IndexOfChar(address, "@", at + 1)
        seg == toLowerCase(SubSeq(address, at + 1, IF next = 0 THEN Len(address) ELSE next - 1))
    IN IF at = 0 THEN domain = ""
       ELSE \E k \in 0..Len(seg) :
              /\ \A m \in (k + 1)..Len(seg) : CharAt(seg, m) \in {")", "]", ">"}
              /\ k > 0 => CharAt(seg, k) \notin {")", "]", ">"}
              /\ \E i \in 1..(k + 1) :
                   /\ \A m \in 1..(i - 1) : IsSpace(CharAt(seg, m))
                   /\ \A m \in (i + Len(domain))..k : IsSpace(CharAt(seg, m))
                   /\ i + Len(domain) - 1 <= k
                   /\ \A m \in 1..Len(domain) : CharAt(domain, m) = CharAt(seg, i + m - 1)
                   /\ domain # "" =>
                        ~IsSpace(CharAt(domain, 1)) /\ ~IsSpace(CharAt(domain, Len(domain)))

\* a closing parenthesis followed by a space is kept
C16_Witness ==
  /\ lastCall = "extractDomain"
  /\ extracted.email = "a@b.com) "
  /\ extracted.domain = "b.com)"

\* C17: getTargetProjectId returns the inbox project for an internal, not
\* forwarded email whatever hasClientLabel is; for an external direct email
\* it returns the clients project when hasClientLabel is true and the
\* external project otherwise.
C17_DirectRouting ==
  lastCall = "getTargetProjectId" =>
    /\ metadata.isInternal /\ ~metadata.isForwarded =>
         route.targetProjectId = PROJECT_IDS.MAIL_INBOX
    /\ metadata.isExternalDirect => route.targetProjectId =
         (IF route.hasClientLabel THEN PROJECT_IDS.CLIENTS ELSE PROJECT_IDS.EXTERNAL)

\* an external direct email without a client label goes to the external
\* project
C17_Witness ==
  /\ lastCall = "getTargetProjectId"
  /\ metadata.isExternalDirect
  /\ ~route.hasClientLabel
  /\ route.targetProjectId = PROJECT_IDS.EXTERNAL

\* C18: an internal forward is sent to the clients project when a client
\* label was assigned and to the external project otherwise, never to the
\* inbox.
C18_InternalForwardRouting ==
  lastCall = "routeIssue" /\ ~route.isFromSlack /\ metadata.isInternalForward =>
    /\ route.targetProjectId =
         (IF route.hasClientLabel THEN PROJECT_IDS.CLIENTS ELSE PROJECT_IDS.EXTERNAL)
    /\ route.targetProjectId # PROJECT_IDS.MAIL_INBOX

\* C19: an email forwarded by an external forwarder is sent to the clients
\* project when a client label was assigned and to the external project
\* when none was.
C19_ExternalForwardRouting ==
  lastCall = "routeIssue" /\ ~route.isFromSlack /\ metadata.isForwarded /\ metadata.forwarderDomain # INTERNAL_DOMAIN =>
    route.targetProjectId =
         (IF route.hasClientLabel THEN PROJECT_IDS.CLIENTS ELSE PROJECT_IDS.EXTERNAL)

\* the label the tests of getSourceLabels expect, by the precedence internal
\* forward, external direct, forwarded, email
ExpectedSourceLabel ==
  IF metadata.isInternalForward THEN "Request Source → Internal Forward"
  ELSE IF metadata.isExternalDirect THEN "Request Source → External Direct"
  ELSE IF metadata.isForwarded THEN "Request Source → Forwarded"
  ELSE "Request Source → Email"

\* C20: getSourceLabels returns exactly one label, chosen by the precedence
\* internal forward > external direct > forwarded > email, and the label is
\* the one the tests expect.
C20_OneSourceLabel ==
  lastCall = "getSourceLabels" => labels = <<ExpectedSourceLabel>>

C22_ThreeDistinctKeywords ==
  Analyzed =>
    LET scan == ScanUrgency(email.content, email.subject)
        fullText == toLowerCase(email.subject \o "\n" \o email.content)
        matched == {e.keyword : e \in {URGENCY_KEYWORDS[k] : k \in 1..Len(URGENCY_KEYWORDS)}
                                        \cup {IMPACT_KEYWORDS[k] : k \in 1..Len(IMPACT_KEYWORDS)}}
        distinct == {keyword \in matched : includes(fullText, toLowerCase(keyword))}
        weights == SumOf([k \in 1..Len(URGENCY_KEYWORDS) |->
                            IF URGENCY_KEYWORDS[k].keyword \in distinct
                              THEN URGENCY_KEYWORDS[k].weight ELSE 0], 1)
                   + SumOf([k \in 1..Len(IMPACT_KEYWORDS) |->
                              IF IMPACT_KEYWORDS[k].keyword \in distinct
                                THEN IMPACT_KEYWORDS[k].weight ELSE 0], 1)
        bonus == IF Cardinality(distinct) >= 3 THEN 15 ELSE 0
    IN /\ (\E k \in 1..Len(scan.reasons) : scan.reasons[k] = "Multiple urgency indicators")
            <=> Cardinality(distinct) >= 3
       /\ (\A k \in 1..Len(PANIC_PATTERNS(email.subject \o "\n" \o email.content)) :
             PANIC_PATTERNS(email.subject \o "\n" \o email.content)[k].matches = 0)
          /\ (\A k \in 1..Len(TIME_PATTERNS(fullText)) : ~TIME_PATTERNS(fullText)[k].test)
          => urgency.score = NormalizeScore(weights + bonus)

\* C23: every panic pattern contributes its weight times min(matchCount, 3)
\* to the raw score: never more than three times its weight, however often
\* it is repeated, and 0 when it does not match.
C23_PanicCappedAtThree ==
  Analyzed =>
    LET originalText == email.subject \o "\n" \o email.content
        fullText == toLowerCase(originalText)
        panic == PANIC_PATTERNS(originalText)
        contribution == [k \in 1..Len(panic) |->
                           IF panic[k].matches = 0 THEN 0
                           ELSE IF panic[k].matches >= 3 THEN 3 * panic[k].weight
                           ELSE panic[k].matches * panic[k].weight]
        keywords == SumOf([k \in 1..Len(URGENCY_KEYWORDS) |->
                             IF includes(fullText, toLowerCase(URGENCY_KEYWORDS[k].keyword))
                               THEN URGENCY_KEYWORDS[k].weight ELSE 0], 1)
                    + SumOf([k \in 1..Len(IMPACT_KEYWORDS) |->
                               IF includes(fullText, toLowerCase(IMPACT_KEYWORDS[k].keyword))
                                 THEN IMPACT_KEYWORDS[k].weight ELSE 0], 1)
        time == SumOf([k \in 1..Len(TIME_PATTERNS(fullText)) |->
                         IF TIME_PATTERNS(fullText)[k].test
                           THEN TIME_PATTERNS(fullText)[k].weight ELSE 0], 1)
        bonus == IF Len(ScanUrgency(email.content, email.subject).detectedKeywords) >= 3
                   THEN 15 ELSE 0
    IN /\ RawScore = keywords + SumOf(contribution, 1) + time + bonus
       /\ \A k \in 1..Len(panic) : contribution[k] \in 0..(3 * panic[k].weight)

\* a pattern matched more than three times: the runs of exclamation marks
C23_Witness ==
  /\ Analyzed
  /\ PANIC_PATTERNS(email.subject \o "\n" \o email.content)[1].matches > 3
  /\ \E k \in 1..Len(urgency.reasons) : urgency.reasons[k] = "Multiple exclamation marks"

\* C24 as stated: without a linked and without a plain From: line, the
\* sender is the first email-looking token of the content in the order of
\* the text, tokens of the ticketing system's own domain skipped.
C24_FirstInContentOrder ==
  Extracted /\ LinkedFroms(email.content, 1) = {} /\ PlainFroms(email.content, 1, 1) = {} =>
    LET tokens == RegularEmails(email.content, 1)
        eligible == {k \in 1..Len(tokens) : ~includes(tokens[k], "@linear.app")}
    IN metadata.senderEmail =
         (IF eligible = {} THEN "" ELSE toLowerCase(tokens[Min(eligible)]))

\* C24 (amended): without a linked and without a plain From: line, the
\* sender is the lower-cased first eligible address of the mailto: links in
\* the order of the text or, when no link gives one, the first eligible
\* bare email-looking token in the order of the text; an address is
\* eligible when it contains '@' and does not contain 'linear.app'.
C24_MailtoBeforeBare ==
  Extracted /\ LinkedFroms(email.content, 1) = {} /\ PlainFroms(email.content, 1, 1) = {} =>
    LET links == MailtoEmails(email.content, 1)
        tokens == RegularEmails(email.content, 1)
        eligible(list) ==
          {k \in 1..Len(list) : includes(list[k], "@") /\ ~includes(list[k], "linear.app")}
    IN metadata.senderEmail =
         (IF eligible(links) # {} THEN toLowerCase(links[Min(eligible(links))])
          ELSE IF eligible(tokens) # {} THEN toLowerCase(tokens[Min(eligible(tokens))])
          ELSE "")

\* the address of a link is chosen over the bare token that precedes it
C24_Witness ==
  /\ Extracted
  /\ email.content = "Reported by bob@partner.org via [Ann](mailto:ann@client.com)\nHello, this is a test."
  /\ metadata.senderEmail = "ann@client.com"

\* C25: when no thread reference matches, findRelatedTickets returns at the
\* subject tier exactly the records whose normalized subject is the query's
\* and whose sender domain is the query sender's; a reply that puts a
\* reply / forward prefix before a recorded subject, from the same domain,
\* is found at this tier.
C25_SubjectTier ==
  Found /\ Tier1 = <<>> =>
    LET senderDomain == SplitAtDomain(query.senderEmail)
        same == {r \in Records : /\ r.normalizedSubject = normalizeSubject(query.subject)
                                 /\ r.senderDomain = senderDomain}
        bySubject == {m \in Matches : TierOf(m) = 2}
    IN /\ {m.issueId : m \in bySubject} = {r.issueId : r \in same}
       /\ same # {} => Matches = bySubject
       /\ \A r \in Records, k \in 1..Len(SubjectPrefixes) :
            /\ query.subject = SubjectPrefixes[k] \o ": " \o r.subject
            /\ r.senderDomain = senderDomain
            => r.issueId \in {m.issueId : m \in bySubject}

\* C27: every entry of the message-id reverse index points to an issue that
\* is in the conversation index and whose record carries that messageId.
C27_NoStaleReverseEntry ==
  \A messageId \in DOMAIN messageIdIndex :
    \E r \in Records : /\ r.issueId = messageIdIndex[messageId]
                       /\ r.messageId = messageId

\* C28: the list findRelatedTickets returns holds every issue at most once.
C28_EachItemOnce ==
  Found => \A j, k \in 1..Len(related) : related[j].issueId = related[k].issueId => j = k

\* C29: findRelatedTickets leaves the conversation index and the reverse
\* index as they are; only recordTicket changes them, and the list returned
\* depends on the two indexes and the arguments only, as long as no record
\* crosses the 24 hour boundary.
C29_FindRelatedReadsOnly ==
  [][/\ lastCall' = "findRelatedTickets" =>
          /\ ticketCache' = ticketCache
          /\ messageIdIndex' = messageIdIndex
          /\ \A t \in Instants \cup RecentInstants :
               (\A r \in Records : (t - r.createdAt < RECENT_HOURS)
                                     <=> (now - r.createdAt < RECENT_HOURS))
               => related' = findRelatedTickets(ticketCache, messageIdIndex, t,
                               query'.senderEmail, query'.subject, query'.content)
     /\ ticketCache' # ticketCache \/ messageIdIndex' # messageIdIndex =>
          lastCall' = "recordTicket"]_vars

\* a lookup has returned matches while an expired record and its reverse
\* entry are still in the indexes
C29_Witness ==
  /\ Found
  /\ related # <<>>
  /\ \E r \in Records : /\ now - r.createdAt > CACHE_TTL_DAYS * 24
                        /\ IndexGet(messageIdIndex, r.messageId) = r.issueId

\* C30: exactly one of the four classes of the decision table holds of
\* every extractor output; isInternalForward implies isInternal,
\* isExternalDirect implies neither isInternal nor isForwarded, and
\* assignToEmail is present exactly when isInternal holds.
C30_OneClass ==
  Extracted =>
    LET classes == <<metadata.isInternal /\ ~metadata.isForwarded,
                     metadata.isInternalForward,
                     metadata.isExternalDirect,
                     metadata.isForwarded /\ metadata.forwarderDomain # INTERNAL_DOMAIN>>
    IN /\ Cardinality({k \in 1..4 : classes[k]}) = 1
       /\ metadata.isInternalForward => metadata.isInternal
       /\ metadata.isExternalDirect => ~metadata.isInternal /\ ~metadata.isForwarded
       /\ metadata.assignToEmail # undefined <=> metadata.isInternal
       /\ metadata.isInternal => metadata.assignToEmail = metadata.senderEmail
                                 /\ metadata.senderEmail # ""

\* a forward by an external forwarder: the fourth class, nobody to assign
C30_Witness ==
  /\ Extracted
  /\ metadata.isForwarded
  /\ metadata.forwarderDomain = "acme.com"
  /\ ~metadata.isInternal /\ ~metadata.isInternalForward /\ ~metadata.isExternalDirect
  /\ metadata.assignToEmail = undefined

\* C26: the gate prevents duplicate processing: while a handler for an issue
\* is between markAsProcessing and its response, every other delivery for
\* that issue is skipped, so that no two handlers of one issue are in their
\* fetch / refine / update steps at the same time.
C26_OneHandlerPerIssue ==
  \A g, h \in 1..MaxDeliveries :
    /\ g # h
    /\ handlers[g].issueId = handlers[h].issueId
    /\ handlers[g].pc \in {"getIssue", "processEmail", "updateLinearIssue"}
    => handlers[h].pc \notin {"getIssue", "processEmail", "updateLinearIssue"}

====
